---- MODULE Spec2Model ----
(***************************************************************************)
(* A model of include/openbmc_dbus_rest.hpp: the REST-to-D-Bus bridge of   *)
(* bmcweb.  One HTTP request is followed from its route handler through    *)
(* the asynchronous bus calls it issues to the calls of res.end().         *)
(*                                                                         *)
(* The reactor is single-threaded: every step of the model is one whole    *)
(* route handler or one whole bus callback.  Bus replies are the inputs:   *)
(* a reply is chosen when its callback runs, and the outstanding calls     *)
(* may be answered in any order.                                           *)
(***************************************************************************)
EXTENDS Integers, Sequences, FiniteSets, TLC

(***************************************************************************)
(* Bounds of the model.                                                    *)
(***************************************************************************)
\* owners (connections) in one object-mapper reply
MaxOwners == 2
\* interfaces of one owner in a GetObject reply
MaxIfaces == 2
\* depth of the object tree the introspect walk descends
MaxDepth == 2

(***************************************************************************)
(* boost::beast::http::status values used by the handlers.                 *)
(***************************************************************************)
ok == 200
bad_request == 400
forbidden == 403
not_found == 404
method_not_allowed == 405
internal_server_error == 500

(***************************************************************************)
(* nlohmann::json values.  A value carries its type tag; number_unsigned   *)
(* and number_integer are distinct types, as get_ptr distinguishes them.   *)
(***************************************************************************)
JNull == [t |-> "null"]
JBool(b) == [t |-> "boolean", v |-> b]
JInt(n) == [t |-> "number_integer", v |-> n]
JUInt(n) == [t |-> "number_unsigned", v |-> n]
JFloat(n) == [t |-> "number_float", v |-> n]
JStr(s) == [t |-> "string", v |-> s]
JArr(s) == [t |-> "array", v |-> s]
JObj(f) == [t |-> "object", v |-> f]
\* nlohmann::json::object()
EmptyObject == JObj(<<>>)
\* a parse that failed: nlohmann::json::parse(..., false) gives a discarded value
Discarded == [t |-> "discarded"]

\* json::empty(): null, or an object or array without elements
json_empty(j) ==
  \/ j.t = "null"
  \/ j.t = "object" /\ DOMAIN j.v = {}
  \/ j.t = "array" /\ Len(j.v) = 0

\* j[key] = x on an object (a null becomes an object first)
json_set(j, key, x) ==
  LET old == IF j.t = "object" THEN j.v ELSE <<>> IN
  JObj([k \in (DOMAIN old) \cup {key} |-> IF k = key THEN x ELSE old[k]])

\* the envelope {"status": "ok", "message": "200 OK", "data": d}
Envelope(d) == JObj([status |-> JStr("ok"), message |-> JStr("200 OK"), data |-> d])

(***************************************************************************)
(* The state.                                                              *)
(***************************************************************************)
VARIABLES
  request,      \* the request being served: its route and what the route parsed
  res,          \* crow::response: result (HTTP status) and json_value
  emitted,      \* what res held at each call of res.end(), in order
  calls,        \* the bus calls in flight, each with what its callback captured
  transaction,  \* the object the callbacks of the request share
  crashed,      \* undefined behaviour ended the process
  mapperReply,  \* history: the reply to the request's object-mapper call
  errorSet,     \* history: setErrorStatus() was called
  issued,       \* history: every bus call issued, in order
  replies,      \* history: the Set and walk replies in order of arrival; for GetAll,
                \* one entry with the value each property had when last returned
  encoding      \* one call of convert_json_to_dbus: its arguments and its result

vars == <<request, res, emitted, calls, transaction, crashed, mapperReply,
          errorSet, issued, replies, encoding>>

NoRequest == [route |-> "none"]
NoEncoding == [phase |-> "none"]
NoTransaction == [type |-> "none"]
\* a default-constructed std::shared_ptr<nlohmann::json>
NullPtr == [type |-> "nullptr"]
NoReply == [got |-> FALSE]

Init ==
  /\ request = NoRequest
  /\ res = [result |-> ok, json_value |-> JNull]
  /\ emitted = <<>>
  /\ calls = <<>>
  /\ transaction = NoTransaction
  /\ crashed = FALSE
  /\ mapperReply = NoReply
  /\ errorSet = FALSE
  /\ replies = <<>>
  /\ encoding = NoEncoding
  /\ issued = <<>>

\* res.end(): the response as it stands is handed to the HTTP layer
end(r) == Append(emitted, r)

RemoveAt(s, i) == SubSeq(s, 1, i - 1) \o SubSeq(s, i + 1, Len(s))

\* the callbacks in flight that hold a copy of the shared transaction
Holders(cs) == {i \in 1..Len(cs) : cs[i].holds}

\* a callback of the request runs: no request is served after a crash
Running(i, kind) ==
  /\ ~crashed
  /\ i \in 1..Len(calls)
  /\ calls[i].kind = kind

(***************************************************************************)
(* What the bus can answer.                                                *)
(***************************************************************************)
\* a local whose initialiser runs once: Op applied to the value of e
Bind(e, Op(_)) == CHOOSE out \in {Op(x) : x \in {e}} : TRUE

RECURSIVE FoldSeq(_, _, _)
\* a loop over a sequence: acc = Op(acc, s[1]); acc = Op(acc, s[2]); ...
FoldSeq(Op(_, _), acc, s) ==
  IF s = <<>> THEN acc ELSE FoldSeq(Op, Op(acc, Head(s)), Tail(s))

ConnName(k) == "conn" \o ToString(k)
IfaceName(k) == "org.iface" \o ToString(k)
AllConns == [k \in 1..MaxOwners |-> ConnName(k)]

\* the interface lists of one owner: none, or the first n interfaces
IfaceLists == {[k \in 1..n |-> IfaceName(k)] : n \in 0..MaxIfaces}

\* GetObject replies: vector<pair<connection, vector<interface>>>
GetObjectType ==
  UNION {{[k \in 1..n |-> [first |-> ConnName(k), second |-> f[k]]] :
            f \in [1..n -> IfaceLists]} : n \in 0..MaxOwners}

\* a D-Bus variant of DbusRestVariantType: its type code and its value
Variant(sig, val) == [sig |-> sig, val |-> val]

\* apply_visitor([&json](auto &&val) { json = val; }, variant): the JSON type
\* follows the C++ type of the alternative the variant holds
variant_to_json(v) ==
  CASE v.sig = "s" -> JStr(v.val)
    [] v.sig \in {"x", "i", "n"} -> JInt(v.val)
    [] v.sig \in {"t", "u", "q", "y"} -> JUInt(v.val)
    [] v.sig = "d" -> JFloat(v.val)
    [] v.sig = "b" -> JBool(v.val)

Property(name, v) == [first |-> name, second |-> v]

\* GetAll replies: vector<pair<property, variant>>
GetAllType ==
  { <<>>,
    <<Property("Powered", Variant("b", TRUE))>>,
    <<Property("Count", Variant("u", 7))>>,
    <<Property("Value", Variant("s", "on")), Property("Powered", Variant("b", FALSE))>> }

\* GetSubTree replies: vector<pair<path, vector<pair<connection, interfaces>>>>;
\* each object is owned by a subset of the connections
OwnerSubsets ==
  {SelectSeq([k \in 1..MaxOwners |-> [first |-> ConnName(k), second |-> <<IfaceName(1)>>]],
             LAMBDA o : o.first \in S) : S \in SUBSET {ConnName(k) : k \in 1..MaxOwners}}
GetSubTreeType ==
  UNION {{[k \in 1..n |-> [first |-> "/xyz/a/o" \o ToString(k), second |-> f[k]]] :
            f \in [1..n -> OwnerSubsets]} : n \in 0..2}

\* what async_method_call hands its callback: on an error the reply was not
\* unpacked, and the value is the default-constructed one
Replies(T, default) ==
  {[ec |-> TRUE, v |-> default]} \cup {[ec |-> FALSE, v |-> x] : x \in T}

Object(path, ifaces) == [first |-> path, second |-> ifaces]
Iface(name, props) == [first |-> name, second |-> props]

\* GetManagedObjects replies: vector<pair<object_path, map<interface, map<property, variant>>>>
ManagedObjectType ==
  { <<>>,
    <<Object("/xyz/a/o1", <<Iface("org.iface1", <<Property("Powered", Variant("b", TRUE))>>)>>)>>,
    <<Object("/xyz/a/o1", <<Iface("org.iface1", <<Property("Value", Variant("d", 42))>>),
                            Iface("org.iface2", <<Property("Powered", Variant("b", FALSE)),
                                              Property("Value", Variant("s", "on"))>>)>>),
      Object("/xyz/a/o2", <<>>)>>,
    <<Object("/xyz/a/o2", <<Iface("org.iface1", <<Property("Count", Variant("u", 7))>>)>>)>> }

(***************************************************************************)
(* Undefined behaviour.  dbus_arg_split and convert_json_to_dbus flow off  *)
(* the end of a value-returning function, and convert_json_to_dbus reads   *)
(* through null and past-the-end pointers.  What the caller then sees is   *)
(* up to the build: each step that runs such code draws one build.         *)
(*   split: "ret"     the caller receives the vector the loop built         *)
(*          "crash"   the process dies                                      *)
(*   conv:  "zero"    the caller receives 0                                 *)
(*          "negative" the caller receives a negative number                *)
(*          "crash"   the process dies                                      *)
(***************************************************************************)
Builds == [split : {"ret", "crash"}, conv : {"zero", "negative", "crash"}]

\* recursion deeper than this has exhausted the stack
MaxStack == 6

EINVAL == 22

(***************************************************************************)
(* dbus_arg_split.  A signature is a sequence of one-character strings.    *)
(***************************************************************************)
\* a variant that leaves the array code out of the element
append_back_skip(ret, c) ==
  IF c = "a" THEN ret ELSE [ret EXCEPT ![Len(ret)] = Append(@, c)]

\* ret.back() += c
append_back(ret, c) == [ret EXCEPT ![Len(ret)] = Append(@, c)]

\* a variant that never starts a new element
next_element_never(string, ret, i) == ret

\* character++; if (character != string.end()) ret.push_back("")
next_element(string, ret, i) == IF i + 1 <= Len(string) THEN Append(ret, <<>>) ELSE ret

RECURSIVE split_loop(_, _, _, _)
\* the while loop, from character i on
split_loop(string, ret, container_depth, i) ==
  IF i > Len(string) THEN ret
  ELSE
    LET c == string[i]
        r1 == append_back(ret, c)
    IN
    CASE c = "a" -> split_loop(string, r1, container_depth, i + 1)
      [] c \in {"(", "{"} -> split_loop(string, r1, container_depth + 1, i + 1)
      [] c \in {"}", ")"} ->
           IF container_depth - 1 = 0
           THEN split_loop(string, next_element(string, r1, i), 0, i + 1)
           ELSE split_loop(string, r1, container_depth - 1, i + 1)
      [] OTHER ->
           IF container_depth = 0
           THEN split_loop(string, next_element(string, r1, i), container_depth, i + 1)
           ELSE split_loop(string, r1, container_depth, i + 1)

\* the function has a return statement for the empty string only
dbus_arg_split(ub, string) ==
  IF string = <<>> THEN [crash |-> FALSE, ret |-> <<>>]
  ELSE IF ub.split = "crash" THEN [crash |-> TRUE, ret |-> <<>>]
  ELSE [crash |-> FALSE, ret |-> split_loop(string, << <<>> >>, 0, 1)]

(***************************************************************************)
(* The sd-bus message builder, as far as the code depends on it: a message *)
(* is the sequence of the operations applied to it, and a container is     *)
(* refused (-EINVAL) when its contents signature is not what the container *)
(* type requires.                                                          *)
(***************************************************************************)
BasicCodes == {"y", "b", "n", "q", "i", "u", "x", "t", "d", "s", "o", "g"}

RECURSIVE complete_len(_, _)
\* the length of the single complete type that starts at sig[i]; 0 if there is none
complete_len(sig, i) ==
  IF i > Len(sig) THEN 0
  ELSE
    LET c == sig[i] IN
    IF c \in BasicCodes \cup {"v"} THEN 1
    ELSE IF c = "a" THEN
      LET n == complete_len(sig, i + 1) IN IF n = 0 THEN 0 ELSE n + 1
    ELSE IF c \in {"(", "{"} THEN
      LET close == IF c = "(" THEN ")" ELSE "}"
          inner[k \in 1..(Len(sig) + 1)] ==
            \* the index of the close bracket, scanning members from k; 0 if none
            IF k > Len(sig) THEN 0
            ELSE IF sig[k] = close THEN k
            ELSE LET n == complete_len(sig, k) IN
                 IF n = 0 \/ k + n > Len(sig) THEN 0 ELSE inner[k + n]
          e == inner[i + 1]
      IN IF e = 0 \/ e = i + 1 THEN 0 ELSE e - i + 1
    ELSE 0

signature_is_single(sig) == Len(sig) > 0 /\ complete_len(sig, 1) = Len(sig)

RECURSIVE signature_is_valid_from(_, _)
signature_is_valid_from(sig, i) ==
  IF i > Len(sig) THEN TRUE
  ELSE LET n == complete_len(sig, i) IN
       n # 0 /\ signature_is_valid_from(sig, i + n)

signature_is_pair(sig) ==
  /\ Len(sig) >= 2
  /\ sig[1] \in BasicCodes
  /\ complete_len(sig, 2) = Len(sig) - 1

sd_bus_message_open_container(type, contents) ==
  IF CASE type \in {"a", "v"} -> signature_is_single(contents)
       [] type = "r" -> Len(contents) > 0 /\ signature_is_valid_from(contents, 1)
       [] type = "e" -> signature_is_pair(contents)
  THEN 0 ELSE -EINVAL

\* closing succeeds when a container is open
open_depth(m) ==
  Cardinality({k \in 1..Len(m) : m[k].op = "open_container"})
    - Cardinality({k \in 1..Len(m) : m[k].op = "close_container"})
sd_bus_message_close_container(m) == IF open_depth(m) > 0 THEN 0 ELSE -EINVAL

OpenOp(type, contents) == [op |-> "open_container", type |-> type, contents |-> contents]
CloseOp == [op |-> "close_container"]
BasicOp(type, value) == [op |-> "append_basic", type |-> type, value |-> value]

(***************************************************************************)
(* convert_json_to_dbus.  The result is the returned r, the message after  *)
(* the appends made, and whether the process died.                         *)
(***************************************************************************)
Result(r, m) == [r |-> r, m |-> m, crash |-> FALSE]
Crash(m) == [r |-> 0, m |-> m, crash |-> TRUE]

\* flowing off the end of the function
fall_off(ub, m) ==
  CASE ub.conv = "zero" -> Result(0, m)
    [] ub.conv = "negative" -> Result(-1, m)
    [] ub.conv = "crash" -> Crash(m)

\* a read through a null or past-the-end pointer
bad_read(ub, m) == IF ub.conv = "crash" THEN Crash(m) ELSE Result(-1, m)

\* the values begin()..end() runs over: the elements of an array, the values of
\* an object in key order, nothing for null, the value itself for a scalar
SortedKeys(S) ==
  CHOOSE q \in [1..Cardinality(S) -> S] :
    /\ \A a \in S : \E k \in 1..Cardinality(S) : q[k] = a
    /\ \A k \in 1..(Cardinality(S) - 1) : q[k] # q[k + 1]
json_keys(j) ==
  CASE j.t = "object" -> SortedKeys(DOMAIN j.v)
    [] j.t = "array" -> [k \in 1..Len(j.v) |-> ToString(k - 1)]
    [] j.t = "null" -> <<>>
    [] OTHER -> <<"">>
json_items(j) ==
  CASE j.t = "array" -> j.v
    [] j.t = "object" -> LET q == json_keys(j) IN [k \in 1..Len(q) |-> j.v[q[k]]]
    [] j.t = "null" -> <<>>
    [] OTHER -> <<j>>

\* static_cast to a signed or unsigned integer of w bits; every integer of the
\* model fits 32 bits, so that only the casts to 8 and 16 bits change a value
cast_signed(v, w) == IF w >= 32 THEN v ELSE ((v + 2^(w - 1)) % 2^w) - 2^(w - 1)
cast_unsigned(v, w) == IF w >= 32 THEN v ELSE v % 2^w

\* boost::istarts_with(s, "t"), for the strings of the model
istarts_with_t(str) == str \in {"t", "T", "true", "True", "TRUE"}

starts_with(arg_code, c) == Len(arg_code) >= 1 /\ arg_code[1] = c
ends_with(arg_code, c) == Len(arg_code) >= 1 /\ arg_code[Len(arg_code)] = c
\* std::string::substr(pos): npos as the length takes the rest
substr(str, pos) == SubSeq(str, pos + 1, Len(str))

RECURSIVE convert_json_to_dbus(_, _, _, _, _)
RECURSIVE convert_array_loop(_, _, _, _, _, _, _)
RECURSIVE convert_struct_loop(_, _, _, _, _, _, _)
RECURSIVE convert_dict_loop(_, _, _, _, _, _, _, _)
RECURSIVE convert_loop(_, _, _, _, _, _, _, _, _)

\* for (it = j->begin(); it != j->end(); ++it) { convert(*it); it++; }
convert_array_loop(ub, stack, m, contained_type, items, it, r) ==
  IF it = Len(items) + 1 THEN Result(r, m)
  ELSE IF it > Len(items) + 1 THEN bad_read(ub, m)
  ELSE
    Bind(convert_json_to_dbus(ub, stack + 1, m, contained_type, items[it]),
         LAMBDA one :
           IF one.crash \/ one.r < 0 THEN one
           ELSE convert_array_loop(ub, stack, one.m, contained_type, items, it + 2, one.r))

\* for (arg_code : dbus_arg_split(arg_type)) { if (it == end) return -1; convert(*it); it++; }
convert_struct_loop(ub, stack, m, codes, k, items, r) ==
  IF k > Len(codes) THEN Result(r, m)
  ELSE IF k > Len(items) THEN Result(-1, m)
  ELSE
    Bind(convert_json_to_dbus(ub, stack + 1, m, codes[k], items[k]),
         LAMBDA one :
           IF one.crash \/ one.r < 0 THEN one
           ELSE convert_struct_loop(ub, stack, one.m, codes, k + 1, items, one.r))

\* for (auto it : j->items()) { convert(key_type, it.key()); convert(value_type, it.value()); }
convert_dict_loop(ub, stack, m, key_type, value_type, keys, items, k) ==
  IF k > Len(items) THEN Result(0, m)
  ELSE
    Bind(convert_json_to_dbus(ub, stack + 1, m, key_type, JStr(keys[k])),
         LAMBDA key :
           IF key.crash \/ key.r < 0 THEN key
           ELSE
             Bind(convert_json_to_dbus(ub, stack + 1, key.m, value_type, items[k]),
                  LAMBDA value :
                    IF value.crash \/ value.r < 0 THEN value
                    ELSE convert_dict_loop(ub, stack, value.m, key_type, value_type, keys,
                                           items, k + 1)))

\* the loop over arg_types, from arg_types[k] on, with j_it at position j_it
convert_loop(ub, stack, m, arg_type, input_json, arg_types, k, j_it, r0) ==
  IF k > Len(arg_types) THEN fall_off(ub, m)
  ELSE
    LET arg_code == arg_types[k]
        multi == Len(arg_types) > 1
        items == json_items(input_json)
        at_end == multi /\ j_it = Len(items) + 1
        past_end == multi /\ j_it > Len(items) + 1
        j == IF multi /\ j_it <= Len(items) THEN items[j_it] ELSE input_json
        has_string == j.t = "string"
        has_uint == j.t = "number_unsigned"
        has_int == j.t \in {"number_integer", "number_unsigned"}
        has_double == j.t \in {"number_float", "number_integer", "number_unsigned"}
        has_bool == j.t = "boolean"
        \* what the branch of arg_code does: r, the message, a crash
        branch ==
          CASE arg_code = <<"s">> ->
                 IF ~has_string THEN [ret |-> TRUE, res |-> Result(-1, m)]
                 ELSE [ret |-> FALSE, res |-> Result(0, Append(m, BasicOp("s", j.v)))]
            [] arg_code = <<"i">> ->
                 IF ~has_int THEN [ret |-> TRUE, res |-> Result(-1, m)]
                 ELSE [ret |-> FALSE,
                       res |-> Result(0, Append(m, BasicOp("i", cast_signed(j.v, 32))))]
            [] arg_code = <<"b">> ->
                 IF has_int
                 THEN [ret |-> FALSE,
                       res |-> Result(0, Append(m, BasicOp("b", IF j.v > 0 THEN 1 ELSE 0)))]
                 ELSE IF has_bool
                 \* bool_int = b ? 1 : 0 tests the pointer b, which is not null here
                 THEN [ret |-> FALSE, res |-> Result(0, Append(m, BasicOp("b", 1)))]
                 ELSE IF has_string
                 THEN [ret |-> FALSE,
                       res |-> Result(0, Append(m, BasicOp("b",
                                 IF istarts_with_t(j.v) THEN 1 ELSE 0)))]
                 ELSE [ret |-> TRUE, res |-> Result(-1, m)]
            [] arg_code = <<"n">> ->
                 IF ~has_int THEN [ret |-> TRUE, res |-> Result(-1, m)]
                 ELSE [ret |-> FALSE,
                       res |-> Result(0, Append(m, BasicOp("n", cast_signed(j.v, 16))))]
            [] arg_code = <<"x">> ->
                 IF ~has_int THEN [ret |-> TRUE, res |-> Result(-1, m)]
                 ELSE [ret |-> FALSE,
                       res |-> Result(0, Append(m, BasicOp("x", cast_signed(j.v, 64))))]
            [] arg_code = <<"y">> ->
                 IF ~has_uint THEN [ret |-> TRUE, res |-> Result(-1, m)]
                 ELSE [ret |-> FALSE,
                       res |-> Result(0, Append(m, BasicOp("y", cast_unsigned(j.v, 8))))]
            [] arg_code = <<"q">> ->
                 IF ~has_uint THEN [ret |-> TRUE, res |-> Result(-1, m)]
                 ELSE [ret |-> FALSE,
                       res |-> Result(0, Append(m, BasicOp("q", cast_unsigned(j.v, 16))))]
            [] arg_code = <<"u">> ->
                 IF ~has_uint THEN [ret |-> TRUE, res |-> Result(-1, m)]
                 ELSE [ret |-> FALSE,
                       res |-> Result(0, Append(m, BasicOp("u", cast_unsigned(j.v, 32))))]
            [] arg_code = <<"t">> ->
                 IF ~has_uint THEN [ret |-> TRUE, res |-> Result(-1, m)]
                 ELSE [ret |-> FALSE,
                       res |-> Result(0, Append(m, BasicOp("t", cast_unsigned(j.v, 64))))]
            [] arg_code = <<"d">> ->
                 \* no null check: double_value is null unless j is a number, and
                 \* the result of the append is dropped
                 IF ~has_double
                 THEN IF ub.conv = "crash"
                      THEN [ret |-> TRUE, res |-> Crash(m)]
                      ELSE [ret |-> FALSE, res |-> Result(r0, m)]
                 ELSE [ret |-> FALSE, res |-> Result(r0, Append(m, BasicOp("d", j.v)))]
            [] starts_with(arg_code, "a") ->
                 LET contained_type == substr(arg_code, 1)
                     r == sd_bus_message_open_container("a", contained_type)
                 IN
                 IF r < 0 THEN [ret |-> TRUE, res |-> Result(r, m)]
                 ELSE
                   Bind(convert_array_loop(ub, stack, Append(m, OpenOp("a", contained_type)),
                                           contained_type, json_items(j), 1, r),
                        LAMBDA body :
                          IF body.crash \/ body.r < 0
                          THEN [ret |-> TRUE, res |-> body]
                          ELSE [ret |-> FALSE, res |-> Result(body.r, Append(body.m, CloseOp))])
            [] starts_with(arg_code, "v") ->
                 LET contained_type == substr(arg_code, 1)
                     r == sd_bus_message_open_container("v", contained_type)
                 IN
                 IF r < 0 THEN [ret |-> TRUE, res |-> Result(r, m)]
                 ELSE
                   Bind(convert_json_to_dbus(ub, stack + 1,
                                             Append(m, OpenOp("v", contained_type)),
                                             contained_type, input_json),
                        LAMBDA body :
                          IF body.crash \/ body.r < 0
                          THEN [ret |-> TRUE, res |-> body]
                          ELSE LET r2 == sd_bus_message_close_container(body.m) IN
                               IF r2 < 0 THEN [ret |-> TRUE, res |-> Result(r2, body.m)]
                               ELSE [ret |-> FALSE,
                                     res |-> Result(r2, Append(body.m, CloseOp))])
            [] starts_with(arg_code, "(") /\ ends_with(arg_code, ")") ->
                 \* substr(1, size - 1) keeps the closing bracket; the members are
                 \* taken from arg_type, not from contained_type
                 LET contained_type == substr(arg_code, 1)
                     r == sd_bus_message_open_container("r", contained_type)
                     m1 == IF r < 0 THEN m ELSE Append(m, OpenOp("r", contained_type))
                 IN
                 Bind(dbus_arg_split(ub, arg_type), LAMBDA codes :
                   IF codes.crash THEN [ret |-> TRUE, res |-> Crash(m1)]
                   ELSE
                     Bind(convert_struct_loop(ub, stack, m1, codes.ret, 1, json_items(j), r),
                          LAMBDA body :
                            IF body.crash \/ body.r < 0
                            THEN [ret |-> TRUE, res |-> body]
                            ELSE LET r2 == sd_bus_message_close_container(body.m) IN
                                 [ret |-> FALSE,
                                  res |-> Result(r2, IF r2 < 0 THEN body.m
                                                     ELSE Append(body.m, CloseOp))]))
            [] starts_with(arg_code, "{") /\ ends_with(arg_code, "}") ->
                 LET contained_type == substr(arg_code, 1)
                     r == sd_bus_message_open_container("e", contained_type)
                     m1 == IF r < 0 THEN m ELSE Append(m, OpenOp("e", contained_type))
                 IN
                 Bind(dbus_arg_split(ub, contained_type), LAMBDA codes :
                   IF codes.crash THEN [ret |-> TRUE, res |-> Crash(m1)]
                   ELSE IF Len(codes.ret) # 2 THEN [ret |-> TRUE, res |-> Result(-1, m1)]
                   ELSE
                     Bind(convert_dict_loop(ub, stack, m1, codes.ret[1], codes.ret[2],
                                            json_keys(j), json_items(j), 1),
                          LAMBDA body :
                            IF body.crash \/ body.r < 0
                            THEN [ret |-> TRUE, res |-> body]
                            ELSE LET r2 == sd_bus_message_close_container(body.m) IN
                                 [ret |-> FALSE,
                                  res |-> Result(r2, IF r2 < 0 THEN body.m
                                                     ELSE Append(body.m, CloseOp))]))
            [] OTHER -> [ret |-> TRUE, res |-> Result(-2, m)]
    IN
    IF at_end THEN Result(-2, m)
    ELSE IF past_end THEN bad_read(ub, m)
    ELSE Bind(branch, LAMBDA b :
           IF b.ret \/ b.res.crash THEN b.res
           ELSE IF b.res.r < 0 THEN b.res
           ELSE convert_loop(ub, stack, b.res.m, arg_type, input_json, arg_types, k + 1,
                             IF multi THEN j_it + 2 ELSE j_it, b.res.r))

convert_json_to_dbus(ub, stack, m, arg_type, input_json) ==
  IF stack > MaxStack THEN Crash(m)
  ELSE
    Bind(dbus_arg_split(ub, arg_type), LAMBDA arg_types :
      IF arg_types.crash THEN Crash(m)
      ELSE convert_loop(ub, stack, m, arg_type, input_json, arg_types.ret, 1, 1, 0))

(***************************************************************************)
(* handle_list and its GetSubTreePaths callback.                           *)
(***************************************************************************)
PathLists == {<<>>, <<"/xyz/a">>, <<"/xyz/b", "/xyz/a">>}

handle_list(object_path) ==
  LET c == [kind |-> "GetSubTreePaths", holds |-> FALSE, object_path |-> object_path] IN
  /\ calls' = Append(calls, c)
  /\ issued' = Append(issued, c)
  /\ UNCHANGED <<res, emitted, transaction, crashed, mapperReply, errorSet, replies, encoding>>

handle_list_cb ==
  \E i \in 1..Len(calls), reply \in Replies(PathLists, <<>>) :
    /\ Running(i, "GetSubTreePaths")
    /\ LET ec == reply.ec
           object_paths == reply.v
           r == IF ec
                THEN [res EXCEPT !.result = internal_server_error]
                ELSE [res EXCEPT !.json_value =
                        Envelope(JArr([k \in 1..Len(object_paths) |-> JStr(object_paths[k])]))]
       IN /\ res' = r
          /\ emitted' = end(r)
    /\ calls' = RemoveAt(calls, i)
    /\ mapperReply' = [got |-> TRUE, ec |-> reply.ec, size |-> Len(reply.v)]
    /\ UNCHANGED <<request, transaction, crashed, errorSet, replies, encoding, issued>>

(***************************************************************************)
(* handle_enumerate, its GetSubTree callback, and the GetManagedObjects     *)
(* callback of get_managed_objects_for_enumerate.                          *)
(***************************************************************************)
handle_enumerate(object_path) ==
  LET c == [kind |-> "GetSubTree", holds |-> FALSE, object_path |-> object_path] IN
  /\ calls' = Append(calls, c)
  /\ issued' = Append(issued, c)
  /\ UNCHANGED <<res, emitted, transaction, crashed, mapperReply, errorSet, replies, encoding>>

\* a variant that counts every connection of the bus, named or not
subtree_connections_all(object_names) == AllConns

\* the connections of a GetSubTree reply, as the flat_set iterates them
subtree_connections(object_names) ==
  SelectSeq(AllConns,
            LAMBDA c : \E k \in 1..Len(object_names) :
                         \E j \in 1..Len(object_names[k].second) :
                           object_names[k].second[j].first = c)

get_managed_objects_for_enumerate(object_name, connection_name) ==
  [kind |-> "GetManagedObjects", holds |-> TRUE, object_path |-> object_name,
   connection |-> connection_name]

handle_enumerate_cb ==
  \E i \in 1..Len(calls), reply \in Replies(GetSubTreeType, <<>>) :
    /\ Running(i, "GetSubTree")
    /\ mapperReply' = [got |-> TRUE, ec |-> reply.ec, size |-> Len(reply.v),
                       object_names |-> reply.v]
    /\ LET ec == reply.ec
           object_names == reply.v
           connections == subtree_connections(object_names)
           rest == RemoveAt(calls, i)
       IN
       IF ec THEN
         LET r == [res EXCEPT !.json_value =
                     JObj([message |-> JStr("200 OK"), status |-> JStr("ok"),
                           data |-> EmptyObject])] IN
         /\ res' = r
         /\ emitted' = end(r)
         /\ calls' = rest
         /\ UNCHANGED <<transaction, issued>>
       ELSE IF Len(connections) <= 0 THEN
         LET r == [res EXCEPT !.result = not_found] IN
         /\ res' = r
         /\ emitted' = end(r)
         /\ calls' = rest
         /\ UNCHANGED <<transaction, issued>>
       ELSE
         LET new == [k \in 1..Len(connections) |->
                       get_managed_objects_for_enumerate(calls[i].object_path,
                                                         connections[k])] IN
         /\ transaction' = [type |-> "json", doc |-> EmptyObject]
         /\ calls' = rest \o new
         /\ issued' = issued \o new
         /\ UNCHANGED <<res, emitted>>
    /\ UNCHANGED <<request, crashed, errorSet, replies, encoding>>

\* dbus-rest represents booleans as 1 or 0
bool_as_int(property_json) ==
  IF property_json.t = "boolean"
  THEN JInt(IF property_json.v THEN 1 ELSE 0)
  ELSE property_json

\* the loops of the GetManagedObjects callback over one reply
enumerate_property(object_json, property) ==
  json_set(object_json, property.first, bool_as_int(variant_to_json(property.second)))
enumerate_interface(object_json, interface) ==
  FoldSeq(enumerate_property, object_json, interface.second)
enumerate_object(data_json, object_path) ==
  LET key == object_path.first
      object_json == IF key \in DOMAIN data_json.v THEN data_json.v[key] ELSE EmptyObject
  IN json_set(data_json, key, FoldSeq(enumerate_interface, object_json, object_path.second))

\* the GetManagedObjects replies so far: how many were bus errors, and for
\* each object path and property name of the others the value returned last
managed_after(reply) ==
  LET old == IF replies = <<>> THEN [errors |-> 0, returned |-> <<>>]
             ELSE [errors |-> replies[1].errors, returned |-> replies[1].returned]
      property(acc, p) == [n \in (DOMAIN acc) \cup {p.first} |->
                             IF n = p.first THEN p.second ELSE acc[n]]
      interface(acc, f) == FoldSeq(property, acc, f.second)
      object(acc, o) == [n \in (DOMAIN acc) \cup {o.first} |->
                           IF n = o.first
                           THEN FoldSeq(interface,
                                        IF n \in DOMAIN acc THEN acc[n] ELSE <<>>,
                                        o.second)
                           ELSE acc[n]]
  IN IF reply.ec THEN [old EXCEPT !.errors = @ + 1]
     ELSE [old EXCEPT !.returned = FoldSeq(object, @, reply.v)]

\* a variant in which a bus error discards what the other connections returned
get_managed_objects_cb_failing ==
  \E i \in 1..Len(calls), reply \in Replies(ManagedObjectType, <<>>) :
    /\ Running(i, "GetManagedObjects")
    /\ replies' = <<[kind |-> "GetManagedObjects",
                      errors |-> managed_after(reply).errors,
                      returned |-> managed_after(reply).returned]>>
    /\ LET ec == reply.ec
           objects == reply.v
           rest == RemoveAt(calls, i)
           doc == IF ec THEN EmptyObject
                  ELSE FoldSeq(enumerate_object, transaction.doc, objects)
           use_count == Cardinality(Holders(rest)) + 1
       IN
       /\ calls' = rest
       /\ IF use_count = 1
          THEN LET r == [res EXCEPT !.json_value =
                           JObj([message |-> JStr("200 OK"), status |-> JStr("ok"),
                                 data |-> doc])] IN
               /\ res' = r
               /\ emitted' = end(r)
               \* std::move(*transaction) leaves the document empty
               /\ transaction' = [transaction EXCEPT !.doc = JNull]
          ELSE /\ transaction' = [transaction EXCEPT !.doc = doc]
               /\ UNCHANGED <<res, emitted>>
    /\ UNCHANGED <<request, crashed, mapperReply, errorSet, encoding, issued>>

get_managed_objects_cb ==
  \E i \in 1..Len(calls), reply \in Replies(ManagedObjectType, <<>>) :
    /\ Running(i, "GetManagedObjects")
    /\ replies' = <<[kind |-> "GetManagedObjects",
                      errors |-> managed_after(reply).errors,
                      returned |-> managed_after(reply).returned]>>
    /\ LET ec == reply.ec
           objects == reply.v
           rest == RemoveAt(calls, i)
           doc == IF ec THEN transaction.doc
                  ELSE FoldSeq(enumerate_object, transaction.doc, objects)
           use_count == Cardinality(Holders(rest)) + 1
       IN
       /\ calls' = rest
       /\ IF use_count = 1
          THEN LET r == [res EXCEPT !.json_value =
                           JObj([message |-> JStr("200 OK"), status |-> JStr("ok"),
                                 data |-> doc])] IN
               /\ res' = r
               /\ emitted' = end(r)
               \* std::move(*transaction) leaves the document empty
               /\ transaction' = [transaction EXCEPT !.doc = JNull]
          ELSE /\ transaction' = [transaction EXCEPT !.doc = doc]
               /\ UNCHANGED <<res, emitted>>
    /\ UNCHANGED <<request, crashed, mapperReply, errorSet, encoding, issued>>

(***************************************************************************)
(* handle_get, its GetObject callback and its GetAll callbacks.            *)
(***************************************************************************)
handle_get(object_path, dest_property) ==
  LET c == [kind |-> "GetObject.get", holds |-> FALSE, object_path |-> object_path,
            property_name |-> dest_property] IN
  /\ calls' = Append(calls, c)
  /\ issued' = Append(issued, c)
  /\ UNCHANGED <<res, emitted, transaction, crashed, mapperReply, errorSet, replies, encoding>>

\* the GetAll calls of one owner, one per interface
get_all_calls(c, connection) ==
  [k \in 1..Len(connection.second) |->
     [kind |-> "GetAll", holds |-> TRUE, object_path |-> c.object_path,
      property_name |-> c.property_name, connection |-> connection.first,
      interface |-> connection.second[k]]]

\* what the callback of a GetAll call captures: res, response, property_name
get_all_callback(c) ==
  [kind |-> "GetAll", holds |-> TRUE, property_name |-> c.property_name]

\* a variant that looks at the first owner only
first_without_interfaces_head(object_names) ==
  IF Len(object_names) >= 1 /\ Len(object_names[1].second) <= 0 THEN 1 ELSE 0

\* the loop over the owners stops at the first one without interfaces
first_without_interfaces(object_names) ==
  LET bad == {k \in 1..Len(object_names) : Len(object_names[k].second) <= 0} IN
  IF bad = {} THEN 0 ELSE CHOOSE k \in bad : \A j \in bad : k <= j

handle_get_cb ==
  \E i \in 1..Len(calls), reply \in Replies(GetObjectType, <<>>) :
    /\ Running(i, "GetObject.get")
    /\ mapperReply' = [got |-> TRUE, ec |-> reply.ec, size |-> Len(reply.v),
                       object_names |-> reply.v]
    /\ LET ec == reply.ec
           object_names == reply.v
           rest == RemoveAt(calls, i)
           stop == first_without_interfaces(object_names)
           served == IF stop = 0 THEN object_names ELSE SubSeq(object_names, 1, stop - 1)
           per_owner == [k \in 1..Len(served) |-> get_all_calls(calls[i], served[k])]
           new == FoldSeq(LAMBDA acc, x : acc \o x, <<>>, per_owner)
       IN
       IF ec \/ Len(object_names) <= 0 THEN
         LET r == [res EXCEPT !.result = not_found] IN
         /\ res' = r
         /\ emitted' = end(r)
         /\ calls' = rest
         /\ UNCHANGED <<transaction, issued>>
       ELSE
         /\ transaction' = [type |-> "json", doc |-> EmptyObject]
         /\ calls' = rest \o [k \in 1..Len(new) |-> get_all_callback(new[k])]
         /\ issued' = issued \o new
         /\ IF stop # 0
            THEN LET r == [res EXCEPT !.result = not_found] IN
                 /\ res' = r
                 /\ emitted' = end(r)
            ELSE UNCHANGED <<res, emitted>>
    /\ UNCHANGED <<request, crashed, errorSet, replies, encoding>>

\* a variant that stores the value under its name in both cases
get_property_wrapped(property_name, response, property) ==
  IF property_name = "" \/ property.first = property_name
  THEN json_set(response, property.first, variant_to_json(property.second))
  ELSE response

\* one property of a GetAll reply
get_property(property_name, response, property) ==
  IF property_name = ""
  THEN json_set(response, property.first, variant_to_json(property.second))
  ELSE IF property.first = property_name
  THEN variant_to_json(property.second)
  ELSE response

\* the value of every property the successful GetAll replies returned so far,
\* this reply included: a later value of a property replaces an earlier one
returned_after(reply) ==
  LET old == IF replies = <<>> THEN <<>> ELSE replies[1].returned
  IN IF reply.ec THEN old
     ELSE FoldSeq(LAMBDA acc, p : [n \in (DOMAIN acc) \cup {p.first} |->
                                     IF n = p.first THEN p.second ELSE acc[n]],
                  old, reply.v)

get_all_cb ==
  \E i \in 1..Len(calls), reply \in Replies(GetAllType, <<>>) :
    /\ Running(i, "GetAll")
    /\ LET ec == reply.ec
           properties == reply.v
           rest == RemoveAt(calls, i)
           name == calls[i].property_name
           response == IF ec THEN transaction.doc
                       ELSE FoldSeq(LAMBDA acc, p : get_property(name, acc, p),
                                    transaction.doc, properties)
           use_count == Cardinality(Holders(rest)) + 1
       IN
       /\ calls' = rest
       /\ transaction' = [transaction EXCEPT !.doc = response]
       /\ IF use_count = 1
          THEN LET r == [res EXCEPT !.json_value = Envelope(response)] IN
               /\ res' = r
               /\ emitted' = end(r)
          ELSE UNCHANGED <<res, emitted>>
    /\ replies' = <<[kind |-> "GetAll", returned |-> returned_after(reply)]>>
    /\ UNCHANGED <<request, crashed, mapperReply, errorSet, issued, encoding>>

(***************************************************************************)
(* Introspection XML, as tinyxml2 presents it: a document that failed to   *)
(* parse has no root <node>; a parsed one has child <node> names and       *)
(* <interface> elements, whose children are <method> and <property>        *)
(* elements, a method's children being its <arg> elements.                 *)
(***************************************************************************)
Unparsable == [parsed |-> FALSE]
Doc(nodes, interfaces) == [parsed |-> TRUE, nodes |-> nodes, interfaces |-> interfaces]
XmlIface(name, methods, properties) ==
  [name |-> name, methods |-> methods, properties |-> properties]
Method(name, args) == [name |-> name, args |-> args]
Arg(name, direction, type) == [name |-> name, direction |-> direction, type |-> type]
Prop(name, type) == [name |-> name, has_type |-> TRUE, type |-> type]
\* a <property> without a type attribute: Attribute("type") is nullptr
PropNoType(name) == [name |-> name, has_type |-> FALSE, type |-> <<>>]

IntrospectDocs ==
  { Unparsable,
    Doc(<<>>, <<>>),
    Doc(<<>>, << XmlIface("org.iface1", <<Method("PowerOn", <<>>)>>,
                          <<Prop("Powered", <<"b">>)>>) >>),
    Doc(<<>>, << XmlIface("org.iface1",
                          <<Method("Reset", <<>>),
                            Method("PowerOn", <<Arg("level", "in", <<"i">>), Arg("mode", "in", <<"s">>)>>)>>,
                          <<Prop("Powered", <<"s">>)>>),
                 XmlIface("org.iface2",
                          <<Method("PowerOn", <<Arg("done", "out", <<"b">>), Arg("level", "in", <<"i">>)>>)>>,
                          <<Prop("Value", <<"d">>), Prop("Powered", <<"b">>)>>) >>),
    Doc(<<>>, << XmlIface("org.iface1", <<Method("PowerOn", <<Arg("levels", "in", <<"a", "i">>)>>)>>,
                          <<PropNoType("Powered")>>) >>) }

\* the text of a bus error: ec.message()
BusErrors == {"Input/output error", "Permission denied"}
NoError == ""

(***************************************************************************)
(* AsyncPutRequest and handle_put.                                         *)
(***************************************************************************)
\* ~AsyncPutRequest(), up to its res.end(): the response it leaves
put_destructor(r, txn) ==
  LET r1 == IF r.result = internal_server_error
            THEN [r EXCEPT !.json_value = EmptyObject]
            ELSE r
  IN IF json_empty(r1.json_value)
     THEN [result |-> forbidden,
           json_value |->
             JObj([status |-> JStr("error"),
                   message |-> JStr("403 Forbidden"),
                   data |-> JObj([message |->
                     JStr("The specified property cannot be created: " \o txn.propertyName)])])]
     ELSE r1

\* ~InProgressActionData(), up to its res.end()
action_destructor(r, txn) ==
  IF r.result = internal_server_error
  THEN [r EXCEPT !.json_value = EmptyObject]
  ELSE r

\* setErrorStatus() of both transaction types
setErrorStatus(r) == [r EXCEPT !.result = internal_server_error]

\* a callback that held the transaction returns: when it held the last
\* reference, the destructor runs and ends the response
release(r, rest) ==
  IF Holders(rest) = {}
  THEN LET final == IF transaction.type = "AsyncPutRequest"
                    THEN put_destructor(r, transaction)
                    ELSE action_destructor(r, transaction)
       IN /\ res' = final
          /\ emitted' = end(final)
  ELSE /\ res' = r
       /\ UNCHANGED emitted

\* request_dbus_data.find("data")
has_data(j) == j.t = "object" /\ "data" \in DOMAIN j.v

handle_put(body, objectPath, destProperty) ==
  IF body = Discarded \/ ~has_data(body) THEN
    LET r == [res EXCEPT !.result = bad_request] IN
    /\ res' = r
    /\ emitted' = end(r)
    /\ UNCHANGED <<calls, transaction, crashed, mapperReply, errorSet, replies, encoding, issued>>
  ELSE
    LET c == [kind |-> "GetObject.put", holds |-> TRUE, object_path |-> objectPath] IN
    /\ transaction' = [type |-> "AsyncPutRequest", objectPath |-> objectPath,
                       propertyName |-> destProperty, propertyValue |-> body.v["data"]]
    \* the constructor writes the success envelope
    /\ res' = [res EXCEPT !.json_value = Envelope(JNull)]
    /\ calls' = Append(calls, c)
    /\ issued' = Append(issued, c)
    /\ UNCHANGED <<emitted, crashed, mapperReply, errorSet, replies, encoding>>

handle_put_cb ==
  \E i \in 1..Len(calls), reply \in Replies(GetObjectType, <<>>) :
    /\ Running(i, "GetObject.put")
    /\ mapperReply' = [got |-> TRUE, ec |-> reply.ec, size |-> Len(reply.v)]
    /\ LET object_names == reply.v
           rest == RemoveAt(calls, i)
       IN
       IF ~reply.ec /\ Len(object_names) <= 0 THEN
         /\ calls' = rest
         /\ release([res EXCEPT !.result = not_found], rest)
         /\ UNCHANGED issued
       ELSE
         LET new == [k \in 1..Len(object_names) |->
                       [kind |-> "Introspect.put", holds |-> TRUE,
                        connection |-> object_names[k].first]]
         IN /\ calls' = rest \o new
            /\ issued' = issued \o new
            /\ release(res, rest \o new)
    /\ UNCHANGED <<request, transaction, crashed, errorSet, replies, encoding>>

\* the <property> elements of a document in the order the two loops visit them
RECURSIVE properties_of(_)
properties_of(interfaces) ==
  IF interfaces = <<>> THEN <<>>
  ELSE LET ifaceNode == Head(interfaces) IN
       [k \in 1..Len(ifaceNode.properties) |->
          [interfaceName |-> ifaceNode.name, propNode |-> ifaceNode.properties[k]]]
       \o properties_of(Tail(interfaces))

RECURSIVE put_scan(_, _, _, _, _, _)
\* the loops of the Introspect callback from the k-th property on: the Set calls
\* sent, whether setErrorStatus() ended the callback, whether the process died
put_scan(ub, txn, connectionName, props, k, sent) ==
  IF k > Len(props) THEN [sent |-> sent, error |-> FALSE, crash |-> FALSE]
  ELSE
    LET p == props[k] IN
    IF p.propNode.name = txn.propertyName /\ p.propNode.has_type THEN
      LET argType == p.propNode.type
          m0 == <<BasicOp("s", p.interfaceName), BasicOp("s", txn.propertyName)>>
          r0 == sd_bus_message_open_container("v", argType)
      IN
      IF r0 < 0 THEN [sent |-> sent, error |-> TRUE, crash |-> FALSE]
      ELSE
        Bind(convert_json_to_dbus(ub, 0, Append(m0, OpenOp("v", argType)), argType,
                                  txn.propertyValue),
             LAMBDA c :
               IF c.crash THEN [sent |-> sent, error |-> FALSE, crash |-> TRUE]
               ELSE IF c.r < 0 THEN [sent |-> sent, error |-> TRUE, crash |-> FALSE]
               ELSE IF sd_bus_message_close_container(c.m) < 0
               THEN [sent |-> sent, error |-> TRUE, crash |-> FALSE]
               ELSE put_scan(ub, txn, connectionName, props, k + 1,
                             Append(sent, [kind |-> "Set", holds |-> TRUE,
                                           connection |-> connectionName,
                                           interface |-> p.interfaceName,
                                           m |-> Append(c.m, CloseOp)])))
    ELSE put_scan(ub, txn, connectionName, props, k + 1, sent)

put_introspect_cb ==
  \E i \in 1..Len(calls), reply \in Replies(IntrospectDocs, Unparsable), ub \in Builds :
    /\ Running(i, "Introspect.put")
    /\ LET rest == RemoveAt(calls, i)
           doc == reply.v
       IN
       IF reply.ec \/ ~doc.parsed THEN
         /\ calls' = rest
         /\ errorSet' = TRUE
         /\ UNCHANGED <<replies, encoding>>
         /\ release(setErrorStatus(res), rest)
         /\ UNCHANGED <<issued, crashed>>
       ELSE \E scan \in {put_scan(ub, transaction, calls[i].connection,
                                    properties_of(doc.interfaces), 1, <<>>)} :
         IF scan.crash THEN
           /\ crashed' = TRUE
           /\ UNCHANGED <<calls, res, emitted, errorSet, replies, encoding, issued>>
         ELSE
           /\ calls' = rest \o scan.sent
           /\ issued' = issued \o scan.sent
           /\ errorSet' = (errorSet \/ scan.error)
           /\ UNCHANGED <<replies, encoding>>
           /\ release(IF scan.error THEN setErrorStatus(res) ELSE res, rest \o scan.sent)
           /\ UNCHANGED crashed
    /\ UNCHANGED <<request, transaction, mapperReply>>

\* a variant in which a successful Set reply writes the success status back
put_set_cb_restoring ==
  \E i \in 1..Len(calls), ec \in {NoError} \cup BusErrors :
    /\ Running(i, "Set")
    /\ LET rest == RemoveAt(calls, i)
           r == IF ec # NoError
                THEN [res EXCEPT !.json_value =
                        json_set(json_set(@, "status", JStr("error")), "message", JStr(ec))]
                ELSE [res EXCEPT !.json_value =
                        json_set(json_set(@, "status", JStr("ok")), "message", JStr("200 OK"))]
       IN /\ calls' = rest
          /\ release(r, rest)
    /\ replies' = Append(replies, [kind |-> "Set", ec |-> ec])
    /\ UNCHANGED <<request, transaction, crashed, mapperReply, errorSet, issued, encoding>>

\* a variant whose callback leaves the response as it is when Set failed
put_set_cb_silent ==
  \E i \in 1..Len(calls), ec \in {NoError} \cup BusErrors :
    /\ Running(i, "Set")
    /\ LET rest == RemoveAt(calls, i)
       IN /\ calls' = rest
          /\ release(res, rest)
    /\ replies' = Append(replies, [kind |-> "Set", ec |-> ec])
    /\ UNCHANGED <<request, transaction, crashed, mapperReply, errorSet, issued, encoding>>

\* the callback of the Properties.Set call
put_set_cb ==
  \E i \in 1..Len(calls), ec \in {NoError} \cup BusErrors :
    /\ Running(i, "Set")
    /\ LET rest == RemoveAt(calls, i)
           r == IF ec # NoError
                THEN [res EXCEPT !.json_value =
                        json_set(json_set(@, "status", JStr("error")), "message", JStr(ec))]
                ELSE res
       IN /\ calls' = rest
          /\ release(r, rest)
    /\ replies' = Append(replies, [kind |-> "Set", ec |-> ec])
    /\ UNCHANGED <<request, transaction, crashed, mapperReply, errorSet, issued, encoding>>

(***************************************************************************)
(* InProgressActionData, handle_action and find_action_on_interface.       *)
(***************************************************************************)
\* a variant without the is_discarded() and is_array() tests
handle_action_unchecked(body, object_path, method_name) ==
  LET c == [kind |-> "GetObject.action", holds |-> TRUE, object_path |-> object_path] IN
  /\ transaction' = [type |-> "InProgressActionData", path |-> object_path,
                     method_name |-> method_name, arguments |-> body]
  /\ calls' = Append(calls, c)
  /\ issued' = Append(issued, c)
  /\ UNCHANGED <<res, emitted, crashed, mapperReply, errorSet, replies, encoding>>

handle_action(body, object_path, method_name) ==
  IF body = Discarded \/ body.t # "array" THEN
    LET r == [res EXCEPT !.result = bad_request] IN
    /\ res' = r
    /\ emitted' = end(r)
    /\ UNCHANGED <<calls, transaction, crashed, mapperReply, errorSet, replies, encoding, issued>>
  ELSE
    LET c == [kind |-> "GetObject.action", holds |-> TRUE, object_path |-> object_path] IN
    /\ transaction' = [type |-> "InProgressActionData", path |-> object_path,
                       method_name |-> method_name, arguments |-> body]
    /\ calls' = Append(calls, c)
    /\ issued' = Append(issued, c)
    /\ UNCHANGED <<res, emitted, crashed, mapperReply, errorSet, replies, encoding>>

find_action_on_interface(connectionName) ==
  [kind |-> "Introspect.action", holds |-> TRUE, connection |-> connectionName]

handle_action_cb ==
  \E i \in 1..Len(calls), reply \in Replies(GetObjectType, <<>>) :
    /\ Running(i, "GetObject.action")
    /\ mapperReply' = [got |-> TRUE, ec |-> reply.ec, size |-> Len(reply.v)]
    /\ LET interface_names == reply.v
           rest == RemoveAt(calls, i)
       IN
       IF reply.ec \/ Len(interface_names) <= 0 THEN
         /\ calls' = rest
         /\ errorSet' = TRUE
         /\ UNCHANGED <<replies, encoding>>
         /\ release(setErrorStatus(res), rest)
         /\ UNCHANGED issued
       ELSE
         LET new == [k \in 1..Len(interface_names) |->
                       find_action_on_interface(interface_names[k].first)]
         IN /\ calls' = rest \o new
            /\ issued' = issued \o new
            /\ release(res, rest \o new)
            /\ UNCHANGED <<errorSet, replies, encoding>>
    /\ UNCHANGED <<request, transaction, crashed>>

\* the <arg> elements the while loop visits: FirstChildElement("arg"), then
\* method_node->NextSiblingElement("arg"), a sibling of the <method>, and an
\* <interface> has no <arg> children
argument_nodes(method_node) ==
  IF method_node.args = <<>> THEN <<>> ELSE <<Head(method_node.args)>>

RECURSIVE encode_arguments(_, _, _, _, _)
\* the while loop over the argument nodes, from the k-th on, with arg_it at
\* element arg_it of the arguments
encode_arguments(ub, nodes, k, arguments, acc) ==
  IF k > Len(nodes) THEN acc
  ELSE IF nodes[k].direction = "in" THEN
    IF acc.arg_it > Len(arguments) THEN [acc EXCEPT !.error = TRUE]
    ELSE
      Bind(convert_json_to_dbus(ub, 0, acc.m, nodes[k].type, arguments[acc.arg_it]),
           LAMBDA c :
             IF c.crash THEN [acc EXCEPT !.crash = TRUE]
             ELSE IF c.r < 0 THEN [acc EXCEPT !.error = TRUE]
             ELSE encode_arguments(ub, nodes, k + 1, arguments,
                                   [acc EXCEPT !.m = c.m, !.arg_it = @ + 1]))
  ELSE encode_arguments(ub, nodes, k + 1, arguments, acc)

\* the first <method> of an interface named method_name: 0 if there is none
first_method(interface_node, method_name) ==
  LET hits == {k \in 1..Len(interface_node.methods) :
                 interface_node.methods[k].name = method_name} IN
  IF hits = {} THEN 0 ELSE CHOOSE k \in hits : \A j \in hits : k <= j

\* the direction="in" <arg> elements a <method> declares
in_args(method_node) ==
  Cardinality({k \in 1..Len(method_node.args) : method_node.args[k].direction = "in"})

\* the type attributes of the direction="in" <arg> elements, in document order
in_arg_types(method_node) ==
  LET ins == SelectSeq(method_node.args, LAMBDA arg : arg.direction = "in")
  IN [k \in 1..Len(ins) |-> ins[k].type]

RECURSIVE action_scan(_, _, _, _, _, _)
\* the loop over the interfaces from the k-th on
action_scan(ub, txn, connectionName, interfaces, k, sent) ==
  IF k > Len(interfaces) THEN [sent |-> sent, error |-> FALSE, crash |-> FALSE]
  ELSE
    LET interface_node == interfaces[k]
        hit == first_method(interface_node, txn.method_name)
    IN
    IF hit = 0 THEN action_scan(ub, txn, connectionName, interfaces, k + 1, sent)
    ELSE
      Bind(encode_arguments(ub, argument_nodes(interface_node.methods[hit]), 1,
                            txn.arguments.v,
                            [m |-> <<>>, arg_it |-> 1, error |-> FALSE, crash |-> FALSE]),
           LAMBDA enc :
             IF enc.crash THEN [sent |-> sent, error |-> FALSE, crash |-> TRUE]
             ELSE IF enc.error THEN [sent |-> sent, error |-> TRUE, crash |-> FALSE]
             ELSE action_scan(ub, txn, connectionName, interfaces, k + 1,
                              Append(sent, [kind |-> "MethodCall", holds |-> TRUE,
                                            connection |-> connectionName,
                                            interface |-> interface_node.name,
                                            \* kept for the record: the code never counts
                                            declared |-> in_args(interface_node.methods[hit]),
                                            in_types |-> in_arg_types(interface_node.methods[hit]),
                                            m |-> enc.m])))

find_action_on_interface_cb ==
  \E i \in 1..Len(calls), reply \in Replies(IntrospectDocs, Unparsable), ub \in Builds :
    /\ Running(i, "Introspect.action")
    /\ LET rest == RemoveAt(calls, i)
           doc == reply.v
       IN
       IF reply.ec \/ ~doc.parsed THEN
         /\ calls' = rest
         /\ release(res, rest)
         /\ UNCHANGED <<issued, crashed, errorSet, replies, encoding>>
       ELSE \E scan \in {action_scan(ub, transaction, calls[i].connection,
                                       doc.interfaces, 1, <<>>)} :
         IF scan.crash THEN
           /\ crashed' = TRUE
           /\ UNCHANGED <<calls, res, emitted, errorSet, replies, encoding, issued>>
         ELSE
           /\ calls' = rest \o scan.sent
           /\ issued' = issued \o scan.sent
           /\ errorSet' = (errorSet \/ scan.error)
           /\ UNCHANGED <<replies, encoding>>
           /\ release(IF scan.error THEN setErrorStatus(res) ELSE res, rest \o scan.sent)
           /\ UNCHANGED crashed
    /\ UNCHANGED <<request, transaction, mapperReply>>

action_send_cb ==
  \E i \in 1..Len(calls), ec \in BOOLEAN :
    /\ Running(i, "MethodCall")
    /\ LET rest == RemoveAt(calls, i)
           r == IF ec THEN setErrorStatus(res)
                ELSE [res EXCEPT !.json_value = Envelope(JNull)]
       IN /\ calls' = rest
          /\ errorSet' = (errorSet \/ ec)
          /\ UNCHANGED <<replies, encoding>>
          /\ release(r, rest)
    /\ UNCHANGED <<request, transaction, crashed, mapperReply, issued>>

(***************************************************************************)
(* introspect_objects: the walk of GET /bus/system/<str>/.                 *)
(***************************************************************************)
\* the children an object at this depth of the tree can report: the root has
\* up to two, an object below it up to one, an object at the bottom none
ChildLists(depth) ==
  IF depth >= MaxDepth THEN {<<>>}
  ELSE IF depth = 0 THEN {<<>>, <<"a">>, <<"a", "b">>}
  ELSE {<<>>, <<"a">>}
WalkDocs(depth) == {Unparsable} \cup {Doc(nodes, <<>>) : nodes \in ChildLists(depth)}

introspect_objects(process_name, path, depth, txn) ==
  [kind |-> "Introspect.walk", holds |-> (txn # NullPtr), process_name |-> process_name,
   object_path |-> path, depth |-> depth]

\* transaction.use_count() in a callback that holds a copy: 0 for a null pointer
use_count(txn, cs) == IF txn = NullPtr THEN 0 ELSE Cardinality(Holders(cs)) + 1

introspect_objects_cb ==
  \E i \in 1..Len(calls) :
    /\ Running(i, "Introspect.walk")
    /\ \E reply \in Replies(WalkDocs(calls[i].depth), Unparsable),
          null_write \in {"crash", "lost"} :
         LET c == calls[i]
             rest == RemoveAt(calls, i)
             doc == reply.v
             \* transaction->push_back({{"path", object_path}})
             pushed == IF transaction = NullPtr THEN transaction
                       ELSE [transaction EXCEPT !.doc =
                               JArr(Append(IF @.t = "array" THEN @.v ELSE <<>>,
                                           JObj([path |-> JStr(c.object_path)])))]
             children == IF reply.ec \/ ~doc.parsed THEN <<>> ELSE doc.nodes
             new == [k \in 1..Len(children) |->
                       introspect_objects(c.process_name,
                                          (IF c.object_path # "/" THEN c.object_path ELSE "")
                                            \o "/" \o children[k],
                                          c.depth + 1, transaction)]
             after == IF reply.ec THEN transaction ELSE pushed
         IN
         \* writing through the null pointer is undefined
         IF ~reply.ec /\ transaction = NullPtr /\ null_write = "crash" THEN
           /\ crashed' = TRUE
           /\ UNCHANGED <<calls, res, emitted, transaction, issued, replies, encoding>>
         ELSE
           /\ calls' = rest \o new
           /\ issued' = issued \o new
           /\ UNCHANGED encoding
           /\ replies' = Append(replies, [kind |-> "Introspect", ec |-> reply.ec,
                                          object_path |-> c.object_path])
           /\ IF use_count(transaction, rest \o new) = 1
              THEN LET r == [res EXCEPT !.json_value =
                               JObj([status |-> JStr("ok"),
                                     bus_name |-> JStr(c.process_name),
                                     objects |-> after.doc])] IN
                   /\ res' = r
                   /\ emitted' = end(r)
                   /\ transaction' = [after EXCEPT !.doc = JNull]
              ELSE /\ transaction' = after
                   /\ UNCHANGED <<res, emitted>>
           /\ UNCHANGED crashed
    /\ UNCHANGED <<request, mapperReply, errorSet>>

(***************************************************************************)
(* request_routes: the routes and the callbacks they define inline.        *)
(***************************************************************************)
\* GET /bus/
route_bus ==
  /\ request = NoRequest
  /\ request' = [route |-> "/bus/", method |-> "GET", handler |-> "bus"]
  /\ res' = [res EXCEPT !.json_value =
               JObj([busses |-> JArr(<<JObj([name |-> JStr("system")])>>),
                     status |-> JStr("ok")])]
  /\ UNCHANGED <<emitted, calls, transaction, crashed, mapperReply, errorSet, replies, encoding, issued>>

\* GET /bus/system/
route_bus_system ==
  LET c == [kind |-> "ListNames", holds |-> FALSE] IN
  /\ request = NoRequest
  /\ request' = [route |-> "/bus/system/", method |-> "GET", handler |-> "names"]
  /\ calls' = Append(calls, c)
  /\ issued' = Append(issued, c)
  /\ UNCHANGED <<res, emitted, transaction, crashed, mapperReply, errorSet, replies, encoding>>

\* the connection names of the model, in the order std::sort gives them
NameOrder == <<"org.example.A", "org.example.B">>
NameLists == {<<>>, <<"org.example.B">>, <<"org.example.B", "org.example.A">>}
sort(names) ==
  FoldSeq(LAMBDA acc, n : acc \o SelectSeq(names, LAMBDA x : x = n), <<>>, NameOrder)

list_names_cb ==
  \E i \in 1..Len(calls), reply \in Replies(NameLists, <<>>) :
    /\ Running(i, "ListNames")
    /\ LET names == sort(reply.v)
           r == IF reply.ec
                THEN [res EXCEPT !.result = internal_server_error]
                ELSE [res EXCEPT !.json_value =
                        IF names = <<>>
                        \* j["objects"] is never touched and stays null
                        THEN JObj([status |-> JStr("ok"), objects |-> JNull])
                        ELSE JObj([status |-> JStr("ok"),
                                   objects |-> JArr([k \in 1..Len(names) |->
                                                       JObj([name |-> JStr(names[k])])])])]
       IN /\ res' = r
          /\ emitted' = end(r)
    /\ calls' = RemoveAt(calls, i)
    /\ UNCHANGED <<request, transaction, crashed, mapperReply, errorSet, replies, encoding, issued>>

\* GET /list/
route_list ==
  /\ request = NoRequest
  /\ request' = [route |-> "/list/", method |-> "GET", handler |-> "list"]
  /\ handle_list("/")

\* a path is the sequence of its segments; the string joins them with "/"
RECURSIVE Join(_)
Join(segs) == IF segs = <<>> THEN "" ELSE "/" \o Head(segs) \o Join(Tail(segs))
Rest(segs) == IF segs = <<>> THEN "" ELSE Head(segs) \o Join(Tail(segs))
Front(segs) == SubSeq(segs, 1, Len(segs) - 1)
Last(segs) == segs[Len(segs)]

\* path.find("/" + word + "/"): the first segment that is the word with a
\* slash on both sides; 0 for npos
find_separator(path, word) ==
  LET hits == {k \in 2..(Len(path) - 1) : path[k] = word} IN
  IF hits = {} THEN 0 ELSE CHOOSE k \in hits : \A j \in hits : k <= j

\* a variant in which a POST without an action separator is served as a GET
xyz_dispatch_fallthrough(method, path) ==
  LET whole == <<"xyz">> \o path
      \* trim one trailing "/"
      trimmed == IF Last(whole) = "" THEN Front(whole) ELSE whole
      attr_position == find_separator(path, "attr")
      object_path == IF attr_position # 0
                     THEN <<"xyz">> \o SubSeq(path, 1, attr_position - 1)
                     ELSE trimmed
      dest_property == IF attr_position # 0
                       THEN Rest(SubSeq(path, attr_position + 1, Len(path)))
                       ELSE ""
      action_position == find_separator(path, "action")
  IN
  CASE method = "POST" ->
         IF action_position # 0
         THEN [handler |-> "action",
               object_path |-> Join(<<"xyz">> \o SubSeq(path, 1, action_position - 1)),
               property |-> Rest(SubSeq(path, action_position + 1, Len(path)))]
         ELSE [handler |-> "get", object_path |-> Join(object_path),
               property |-> dest_property]
    [] method = "GET" ->
         IF Last(object_path) = "enumerate"
         THEN [handler |-> "enumerate", object_path |-> Join(Front(object_path)),
               property |-> dest_property]
         ELSE IF Last(object_path) = "list"
         THEN [handler |-> "list", object_path |-> Join(Front(object_path)),
               property |-> dest_property]
         ELSE [handler |-> "get", object_path |-> Join(object_path),
               property |-> dest_property]
    [] method = "PUT" ->
         [handler |-> "put", object_path |-> Join(object_path), property |-> dest_property]

\* the /xyz/<path> route up to the handler it calls
xyz_dispatch(method, path) ==
  LET whole == <<"xyz">> \o path
      \* trim one trailing "/"
      trimmed == IF Last(whole) = "" THEN Front(whole) ELSE whole
      attr_position == find_separator(path, "attr")
      object_path == IF attr_position # 0
                     THEN <<"xyz">> \o SubSeq(path, 1, attr_position - 1)
                     ELSE trimmed
      dest_property == IF attr_position # 0
                       THEN Rest(SubSeq(path, attr_position + 1, Len(path)))
                       ELSE ""
      action_position == find_separator(path, "action")
  IN
  CASE method = "POST" ->
         IF action_position # 0
         THEN [handler |-> "action",
               object_path |-> Join(<<"xyz">> \o SubSeq(path, 1, action_position - 1)),
               property |-> Rest(SubSeq(path, action_position + 1, Len(path)))]
         ELSE [handler |-> "none", object_path |-> Join(object_path),
               property |-> dest_property]
    [] method = "GET" ->
         IF Last(object_path) = "enumerate"
         THEN [handler |-> "enumerate", object_path |-> Join(Front(object_path)),
               property |-> dest_property]
         ELSE IF Last(object_path) = "list"
         THEN [handler |-> "list", object_path |-> Join(Front(object_path)),
               property |-> dest_property]
         ELSE [handler |-> "get", object_path |-> Join(object_path),
               property |-> dest_property]
    [] method = "PUT" ->
         [handler |-> "put", object_path |-> Join(object_path), property |-> dest_property]

XyzPaths ==
  { <<"a">>, <<"a", "">>, <<"a", "attr", "Powered">>, <<"a", "attr", "Nope">>,
    <<"a", "attr", "b", "attr", "Powered">>, <<"a", "enumerate">>, <<"a", "list">>,
    <<"a", "action", "PowerOn">>, <<"a", "action", "b", "action", "PowerOn">> }

\* req.body parsed by nlohmann::json::parse(req.body, nullptr, false)
Bodies(method) ==
  CASE method = "GET" -> <<Discarded>>
    [] method = "PUT" ->
         <<Discarded, EmptyObject, JObj([data |-> JBool(TRUE)]), JObj([data |-> JStr("x")])>>
    [] method = "POST" ->
         <<Discarded, EmptyObject, JArr(<<>>), JArr(<<JUInt(1)>>),
           JArr(<<JUInt(1), JStr("t")>>)>>

\* GET, PUT and POST /xyz/<path>
route_xyz ==
  /\ request = NoRequest
  /\ \E method \in {"GET", "PUT", "POST"}, path \in XyzPaths :
       \E b \in DOMAIN Bodies(method) :
         LET d == xyz_dispatch(method, path)
             body == Bodies(method)[b] IN
         /\ request' = [route |-> "/xyz/<path>", method |-> method,
                        handler |-> d.handler, object_path |-> d.object_path,
                        property |-> d.property, body |-> body, path |-> path]
         /\ CASE d.handler = "action" -> handle_action(body, d.object_path, d.property)
              [] d.handler = "enumerate" -> handle_enumerate(d.object_path)
              [] d.handler = "list" -> handle_list(d.object_path)
              [] d.handler = "get" -> handle_get(d.object_path, d.property)
              [] d.handler = "put" -> handle_put(body, d.object_path, d.property)
              [] d.handler = "none" ->
                   LET r == [res EXCEPT !.result = method_not_allowed] IN
                   /\ res' = r
                   /\ emitted' = end(r)
                   /\ UNCHANGED <<calls, transaction, crashed, mapperReply, errorSet, replies, encoding,
                                  issued>>

\* GET /bus/system/<str>/
route_bus_system_str ==
  /\ request = NoRequest
  /\ \E connection \in {ConnName(1)} :
       \* std::shared_ptr<nlohmann::json> transaction; points at nothing
       LET c == introspect_objects(connection, "/", 0, NullPtr) IN
       /\ request' = [route |-> "/bus/system/<str>/", method |-> "GET", handler |-> "walk"]
       /\ transaction' = NullPtr
       /\ calls' = Append(calls, c)
       /\ issued' = Append(issued, c)
  /\ UNCHANGED <<res, emitted, crashed, mapperReply, errorSet, replies, encoding>>

\* it->find(".") != npos, for the segments of the model
has_dot(segment) == segment \in {IfaceName(1), "org.none"}

\* the /bus/system/<str>/<path> route's parse of requested_path
bus_path_parse(strs) ==
  LET dotted == {k \in 1..Len(strs) : has_dot(strs[k])}
      it == IF dotted = {} THEN Len(strs) + 1
            ELSE CHOOSE k \in dotted : \A j \in dotted : k <= j
      object_path == Join(SelectSeq(SubSeq(strs, 1, it - 1), LAMBDA x : x # ""))
  IN [object_path |-> object_path,
      interface_name |-> IF it <= Len(strs) THEN strs[it] ELSE "",
      method_name |-> IF it + 1 <= Len(strs) THEN strs[it + 1] ELSE "",
      more |-> it + 2 <= Len(strs)]

BusPaths ==
  { <<"a">>, <<"a", "">>, <<"a", "org.iface1">>, <<"a", "org.iface1", "PowerOn">>,
    <<"a", "org.iface1", "PowerOn", "x">>, <<"a", "org.none">> }

\* GET /bus/system/<str>/<path>
route_bus_system_str_path ==
  /\ request = NoRequest
  /\ \E process_name \in {ConnName(1)}, requested_path \in BusPaths :
       LET p == bus_path_parse(requested_path)
           c == [kind |-> IF p.interface_name = "" THEN "Introspect.interfaces"
                          ELSE "Introspect.describe",
                 holds |-> FALSE, process_name |-> process_name,
                 object_path |-> p.object_path, interface_name |-> p.interface_name]
       IN
       /\ request' = [route |-> "/bus/system/<str>/<path>", method |-> "GET",
                      handler |-> "describe", object_path |-> p.object_path,
                      property |-> p.interface_name]
       /\ IF p.more THEN
            LET r == [res EXCEPT !.result = not_found] IN
            /\ res' = r
            /\ emitted' = end(r)
            /\ UNCHANGED <<calls, issued>>
          ELSE
            /\ calls' = Append(calls, c)
            /\ issued' = Append(issued, c)
            /\ UNCHANGED <<res, emitted>>
  /\ UNCHANGED <<transaction, crashed, mapperReply, errorSet, replies, encoding>>

\* the callback of the route when no interface is named: the interfaces of the object
bus_interfaces_cb ==
  \E i \in 1..Len(calls), reply \in Replies(IntrospectDocs, Unparsable) :
    /\ Running(i, "Introspect.interfaces")
    /\ LET c == calls[i]
           doc == reply.v
           r == IF reply.ec THEN res
                ELSE IF ~doc.parsed
                THEN [result |-> internal_server_error,
                      json_value |-> JObj([status |-> JStr("XML parse error")])]
                ELSE [res EXCEPT !.json_value =
                        JObj([status |-> JStr("ok"),
                              bus_name |-> JStr(c.process_name),
                              interfaces |->
                                JArr([k \in 1..Len(doc.interfaces) |->
                                        JObj([name |-> JStr(doc.interfaces[k].name)])]),
                              object_path |-> JStr(c.object_path)])]
       IN /\ res' = r
          /\ emitted' = end(r)
    /\ calls' = RemoveAt(calls, i)
    /\ UNCHANGED <<request, transaction, crashed, mapperReply, errorSet, replies, encoding, issued>>

\* a signature as the string of the type attribute
RECURSIVE SigStr(_)
SigStr(sig) == IF sig = <<>> THEN "" ELSE Head(sig) \o SigStr(Tail(sig))

\* the entry of methods_array for one <method>
method_json(c, methods) ==
  JObj([name |-> JStr(methods.name),
        uri |-> JStr("/bus/system/" \o c.process_name \o c.object_path \o "/"
                       \o c.interface_name \o "/" \o methods.name),
        args |-> JArr([k \in 1..Len(methods.args) |->
                         JObj([name |-> JStr(methods.args[k].name),
                               type |-> JStr(SigStr(methods.args[k].type)),
                               direction |-> JStr(methods.args[k].direction)])])])

\* the callback of the route when an interface is named: its methods and signals
bus_describe_cb ==
  \E i \in 1..Len(calls), reply \in Replies(IntrospectDocs, Unparsable) :
    /\ Running(i, "Introspect.describe")
    /\ LET c == calls[i]
           doc == reply.v
           hits == {k \in 1..Len(doc.interfaces) : doc.interfaces[k].name = c.interface_name}
           interface == doc.interfaces[CHOOSE k \in hits : \A j \in hits : k <= j]
           r == IF reply.ec THEN res
                ELSE IF ~doc.parsed THEN [res EXCEPT !.result = internal_server_error]
                ELSE IF hits = {} THEN [res EXCEPT !.result = not_found]
                ELSE [res EXCEPT !.json_value =
                        JObj([status |-> JStr("ok"),
                              bus_name |-> JStr(c.process_name),
                              interface |-> JStr(c.interface_name),
                              methods |->
                                JArr([k \in 1..Len(interface.methods) |->
                                        method_json(c, interface.methods[k])]),
                              object_path |-> JStr(c.object_path),
                              properties |-> EmptyObject,
                              signals |-> JArr(<<>>)])]
       IN /\ res' = r
          /\ emitted' = end(r)
    /\ calls' = RemoveAt(calls, i)
    /\ UNCHANGED <<request, transaction, crashed, mapperReply, errorSet, replies, encoding, issued>>

Next ==
  \/ route_bus
  \/ route_bus_system
  \/ route_list
  \/ route_xyz
  \/ route_bus_system_str
  \/ route_bus_system_str_path
  \/ list_names_cb
  \/ introspect_objects_cb
  \/ bus_interfaces_cb
  \/ bus_describe_cb
  \/ handle_list_cb
  \/ handle_enumerate_cb
  \/ get_managed_objects_cb
  \/ handle_get_cb
  \/ get_all_cb
  \/ handle_put_cb
  \/ put_introspect_cb
  \/ put_set_cb
  \/ handle_action_cb
  \/ find_action_on_interface_cb
  \/ action_send_cb

Spec == Init /\ [][Next]_vars

(***************************************************************************)
(* convert_json_to_dbus on its own: one call on a fresh message, with the  *)
(* signature and the JSON value drawn from the lists below.                *)
(***************************************************************************)
CodecTypes ==
  << <<>>,
     <<"i">>, <<"s">>, <<"b">>, <<"y">>, <<"q">>, <<"u">>, <<"n">>, <<"x">>, <<"t">>,
     <<"d">>, <<"o">>, <<"g">>,
     <<"i", "i">>, <<"i", "s">>, <<"i", "i", "i">>, <<"s", "a", "i", "u">>,
     <<"a", "i">>, <<"a", "s">>, <<"a", "a", "i">>, <<"a", "(", "i", "i", ")">>,
     <<"a", "i", "a", "{", "s", "v", "}">>,
     <<"(", "i", "i", ")">>, <<"(", "i", "s", ")">>, <<"(", "i", "(", "s", "s", ")", ")">>,
     <<"{", "s", "i", "}">>, <<"{", "s", "v", "}">>, <<"a", "{", "s", "i", "}">>,
     \* not signatures: brackets that do not match, an array without element type
     <<"a">>, <<"i", "a">>, <<"(", "i">>, <<"i", ")">>, <<"{", "s">>, <<"}">> >>

CodecValues ==
  << JInt(1), JInt(0), JInt(-1), JInt(40000), JUInt(7), JUInt(300), JUInt(70000),
     JFloat(2), JBool(FALSE), JBool(TRUE), JNull,
     JStr("t"), JStr("True"), JStr("false"), JStr("/a"),
     JArr(<<>>), JArr(<<JInt(1)>>), JArr(<<JInt(1), JInt(2)>>),
     JArr(<<JInt(1), JInt(2), JInt(3)>>), JArr(<<JInt(1), JStr("t")>>),
     JArr(<<JStr("t"), JStr("u")>>),
     EmptyObject, JObj([k |-> JInt(1)]), JObj([k |-> JInt(1), l |-> JInt(2)]) >>

InitCodec ==
  /\ request = NoRequest
  /\ res = [result |-> ok, json_value |-> JNull]
  /\ emitted = <<>>
  /\ calls = <<>>
  /\ transaction = NoTransaction
  /\ crashed = FALSE
  /\ mapperReply = NoReply
  /\ errorSet = FALSE
  /\ issued = <<>>
  /\ replies = <<>>
  /\ \E ub \in Builds, t \in DOMAIN CodecTypes, v \in DOMAIN CodecValues :
       encoding = [phase |-> "call", ub |-> ub, arg_type |-> CodecTypes[t],
                   input_json |-> CodecValues[v], out |-> Result(0, <<>>)]

\* the call runs to its return, or to the death of the process
Encode ==
  /\ encoding.phase = "call"
  /\ \E out \in {convert_json_to_dbus(encoding.ub, 0, <<>>, encoding.arg_type,
                                      encoding.input_json)} :
       encoding' = [encoding EXCEPT !.phase = "returned", !.out = out]
  /\ UNCHANGED <<request, res, emitted, calls, transaction, crashed, mapperReply,
                 errorSet, issued, replies>>

\* dbus_arg_split on the signature alone
Split ==
  /\ encoding.phase = "call"
  /\ \E out \in {dbus_arg_split(encoding.ub, encoding.arg_type)} :
       encoding' = [encoding EXCEPT !.phase = "split", !.out = out]
  /\ UNCHANGED <<request, res, emitted, calls, transaction, crashed, mapperReply,
                 errorSet, issued, replies>>

NextCodec ==
  \/ Encode
  \/ Split

SpecCodec == InitCodec /\ [][NextCodec]_vars

(***************************************************************************)
(* Properties.                                                             *)
(***************************************************************************)
\* the request was routed and none of its bus callbacks is outstanding
Done == request # NoRequest /\ calls = <<>> /\ ~crashed

Handler(h) == request # NoRequest /\ request.handler = h

\* the first mapper call of the request was answered without a bus error
MapperAnswered == mapperReply.got /\ ~mapperReply.ec

RECURSIVE contains_bool(_)
\* a JSON bool occurs somewhere in the document
contains_bool(j) ==
  \/ j.t = "boolean"
  \/ j.t = "array" /\ \E k \in 1..Len(j.v) : contains_bool(j.v[k])
  \/ j.t = "object" /\ \E key \in DOMAIN j.v : contains_bool(j.v[key])

\* no property of that name occurs in any GetAll reply
NoSuchProperty(name) ==
  \A properties \in GetAllType : \A k \in 1..Len(properties) : properties[k].first # name

\* no <property> of that name occurs in any introspection document
NoSuchXmlProperty(name) ==
  \A doc \in IntrospectDocs :
    doc.parsed => \A k \in 1..Len(doc.interfaces) :
                    \A n \in 1..Len(doc.interfaces[k].properties) :
                      doc.interfaces[k].properties[n].name # name

\* C1: every request emits exactly one response: res.end() is never called
\* twice, and once no callback of the request is outstanding it was called once.
C1_ExactlyOneResponse ==
  /\ Len(emitted) <= 1
  /\ Done => Len(emitted) = 1

\* C2: in the handlers that share a transaction between their bus callbacks
\* (enumerate, get, put, action, the introspect walk) the response has been
\* emitted if and only if no callback of the request is outstanding.
C2_FinalizedIffLastCallback ==
  (request # NoRequest /\ ~crashed
     /\ request.handler \in {"enumerate", "get", "put", "action", "walk"})
    => (Len(emitted) > 0 <=> calls = <<>>)

\* C3: once the response of a request was emitted, no step changes the
\* Response, neither its status nor its JSON body.
C3_NoMutationAfterEmit == [][Len(emitted) > 0 => res' = res]_vars

\* C4: in a PUT or an action request in which setErrorStatus() was called, every
\* response emitted has status 500 and an empty JSON body, and one is emitted
\* when the last callback has returned.
C4_ErrorMeans500 ==
  ((Handler("put") \/ Handler("action")) /\ errorSet)
    => /\ \A k \in 1..Len(emitted) :
            /\ emitted[k].result = internal_server_error
            /\ json_empty(emitted[k].json_value)
       /\ Done => Len(emitted) >= 1

\* C5: a PUT whose owners were all introspected without error, and whose
\* property no introspection document names, ends with 403 Forbidden and the
\* message "The specified property cannot be created: <name>".
C5_PutUnknownPropertyForbidden ==
  (Handler("put") /\ transaction # NoTransaction /\ MapperAnswered /\ mapperReply.size > 0
     /\ ~errorSet /\ Done /\ NoSuchXmlProperty(transaction.propertyName))
    => /\ Len(emitted) >= 1
       /\ \A k \in 1..Len(emitted) :
            /\ emitted[k].result = forbidden
            /\ emitted[k].json_value.t = "object"
            /\ "data" \in DOMAIN emitted[k].json_value.v
            /\ emitted[k].json_value.v["data"] =
                 JObj([message |-> JStr("The specified property cannot be created: "
                                          \o transaction.propertyName)])

\* C6: no response of handle_get or of handle_enumerate carries a JSON bool: a
\* property of bus type b is written as the integer 1 or 0.
C6_BoolAsInteger ==
  (Handler("get") \/ Handler("enumerate"))
    => \A k \in 1..Len(emitted) : ~contains_bool(emitted[k].json_value)

NoOwners(object_names) == \A k \in 1..Len(object_names) : object_names[k].second = <<>>

SomeOwnerWithoutInterfaces(object_names) ==
  \E k \in 1..Len(object_names) : object_names[k].second = <<>>

\* C8: a GET whose GetObject reply succeeds with no owners, or with an owner at
\* any position whose interface list is empty, is answered, and every response
\* it emits has status 404.
C8_GetNotFound ==
  (Handler("get") /\ MapperAnswered
     /\ (mapperReply.size = 0 \/ SomeOwnerWithoutInterfaces(mapperReply.object_names)))
    => /\ Len(emitted) >= 1
       /\ \A k \in 1..Len(emitted) : emitted[k].result = not_found

\* C8 witness: the second owner of the reply, not the first, has no interfaces,
\* and the request was answered 404.
C8_Witness ==
  /\ Handler("get") /\ MapperAnswered /\ mapperReply.size = 2
  /\ mapperReply.object_names[1].second # <<>>
  /\ mapperReply.object_names[2].second = <<>>
  /\ Len(emitted) >= 1 /\ emitted[1].result = not_found

\* C9: a GET of a named property that no GetAll reply contains, all owners
\* having interfaces, ends with status 404.
C9_UnknownPropertyNotFound ==
  (Handler("get") /\ request.property # "" /\ NoSuchProperty(request.property)
     /\ MapperAnswered /\ mapperReply.size > 0
     /\ ~SomeOwnerWithoutInterfaces(mapperReply.object_names) /\ Done)
    => /\ Len(emitted) >= 1
       /\ \A k \in 1..Len(emitted) : emitted[k].result = not_found

\* C10: a request whose first mapper call (GetSubTreePaths, GetSubTree,
\* GetObject) failed with a bus error is answered, and with status 500.
C10_MapperErrorMeans500 ==
  ((Handler("list") \/ Handler("enumerate") \/ Handler("get") \/ Handler("put")
      \/ Handler("action")) /\ mapperReply.got /\ mapperReply.ec)
    => /\ Len(emitted) >= 1
       /\ \A k \in 1..Len(emitted) : emitted[k].result = internal_server_error

\* the body of the request fails the shape test of its handler
BadPutBody == Handler("put") /\ (request.body = Discarded \/ ~has_data(request.body))
BadActionBody == Handler("action") /\ (request.body = Discarded \/ request.body.t # "array")

\* C11: a PUT whose body is not valid JSON or has no "data" key, and a POST
\* whose body is not valid JSON or not a JSON array, is answered once, with 400
\* and no JSON body, and no bus call is ever issued for it.
C11_BadBodyRejected ==
  (BadPutBody \/ BadActionBody)
    => /\ emitted = <<[result |-> bad_request, json_value |-> JNull]>>
       /\ issued = <<>>
       /\ calls = <<>>

\* C11 witness: a POST whose body is a JSON object was answered 400.
C11_Witness ==
  /\ BadActionBody /\ request.body = EmptyObject
  /\ emitted = <<[result |-> bad_request, json_value |-> JNull]>>

\* the method calls the request sent
MethodCalls == {k \in 1..Len(issued) : issued[k].kind = "MethodCall"}

\* a method was matched and called although the number of elements of the
\* argument array differs from the number of "in" arguments it declares
ArgCountMismatch ==
  \E k \in MethodCalls : issued[k].declared # Len(transaction.arguments.v)

\* C12: an action request that matched a method whose number of "in" arguments
\* differs from the number of elements of the body ends with status 500; one
\* whose matched methods all declare as many "in" arguments as the body has
\* elements, with no encoding failure and no bus error, ends 200 with
\* {"status":"ok","message":"200 OK","data":null}.
C12_ArgCountChecked ==
  (Handler("action") /\ ~BadActionBody /\ Done)
    => /\ ArgCountMismatch
            => /\ Len(emitted) >= 1
               /\ \A k \in 1..Len(emitted) : emitted[k].result = internal_server_error
       /\ (MethodCalls # {} /\ ~ArgCountMismatch /\ ~errorSet)
            => emitted = <<[result |-> ok, json_value |-> Envelope(JNull)]>>

\* the Set replies that carried a bus error, by position of arrival
SetErrors == {k \in 1..Len(replies) : replies[k].kind = "Set" /\ replies[k].ec # NoError}

\* the greatest element of a non-empty set of numbers
Max(S) == CHOOSE k \in S : \A j \in S : j <= k

\* C13: a PUT that found a matching property, encoded the value and sent Set,
\* with no failure elsewhere, is answered once; when every Set reply is a
\* success the response is 200 with {"status":"ok","message":"200 OK",
\* "data":null}, and when a Set reply is a bus error the body carries status
\* "error" and, as message, the text of the bus error that arrived last.
C13_PutSetOutcome ==
  (Handler("put") /\ Done /\ replies # <<>> /\ ~errorSet)
    => /\ Len(emitted) = 1
       /\ SetErrors = {}
            => emitted[1] = [result |-> ok, json_value |-> Envelope(JNull)]
       /\ SetErrors # {}
            => /\ emitted[1].json_value.t = "object"
               /\ emitted[1].json_value.v["status"] = JStr("error")
               /\ emitted[1].json_value.v["message"] = JStr(replies[Max(SetErrors)].ec)

\* C13 witness: a PUT ended after a Set reply carried "Permission denied".
C13_Witness ==
  /\ Handler("put") /\ Done /\ ~errorSet
  /\ replies = <<[kind |-> "Set", ec |-> "Permission denied"]>>
  /\ Len(emitted) = 1

\* C14: a GET whose GetAll calls have all returned ends with "data" shaped by
\* property_name: when it is empty, data is an object with one key for every
\* property that a successful GetAll returned, holding its decoded value; when
\* it names a property that some interface returned, data is that decoded
\* value itself, in whatever order the replies arrived.  When every owner has
\* interfaces this body is the only response, with status 200.
C14_GetResultShape ==
  (Handler("get") /\ Done /\ replies # <<>>)
    => /\ Len(emitted) >= 1
       /\ request.property = ""
            => emitted[Len(emitted)].json_value
                 = Envelope(JObj([n \in DOMAIN replies[1].returned |->
                                    variant_to_json(replies[1].returned[n])]))
       /\ (request.property # "" /\ request.property \in DOMAIN replies[1].returned)
            => emitted[Len(emitted)].json_value
                 = Envelope(variant_to_json(replies[1].returned[request.property]))
       /\ (first_without_interfaces(mapperReply.object_names) = 0
             /\ (request.property = "" \/ request.property \in DOMAIN replies[1].returned))
            => /\ Len(emitted) = 1
               /\ emitted[1].result = ok

\* C14 witness: GET of the property Powered ended with the scalar true as data
\* after one interface returned Powered and another returned only Count.
C14_Witness ==
  /\ Handler("get") /\ Done /\ request.property = "Powered"
  /\ replies # <<>>
  /\ DOMAIN replies[1].returned = {"Powered", "Count"}
  /\ emitted = <<[result |-> ok, json_value |-> Envelope(JBool(TRUE))]>>

\* the paths whose Introspect call of the walk returned without a bus error
Introspected ==
  {replies[k].object_path : k \in {j \in 1..Len(replies) : ~replies[j].ec}}

\* C15: when every Introspect call of the walk has returned, the request was
\* answered once, with a body whose "objects" array holds exactly one {path}
\* entry for every node whose Introspect call succeeded.
C15_WalkFinalizes ==
  (Handler("walk") /\ Done)
    => /\ Len(emitted) = 1
       /\ emitted[1].json_value.t = "object"
       /\ emitted[1].json_value.v["objects"].t = "array"
       /\ LET objects == emitted[1].json_value.v["objects"].v
          IN /\ Len(objects) = Cardinality(Introspected)
             /\ {objects[k] : k \in 1..Len(objects)}
                  = {JObj([path |-> JStr(p)]) : p \in Introspected}

\* C16: once the handler of GET /bus/ has run, the request was answered once,
\* with status 200 and the body {"busses":[{"name":"system"}],"status":"ok"}.
C16_BusRouteCompletes ==
  Handler("bus")
    => emitted = <<[result |-> ok,
                    json_value |->
                      JObj([busses |-> JArr(<<JObj([name |-> JStr("system")])>>),
                            status |-> JStr("ok")])]>>

(***************************************************************************)
(* Properties of convert_json_to_dbus, over the calls of SpecCodec.        *)
(***************************************************************************)
\* the call has returned or has ended the process
Encoded == encoding.phase = "returned"

\* the JSON value is one the basic type code accepts
ValidFor(code, j) ==
  CASE code \in {"s", "o", "g"} -> j.t = "string"
    [] code \in {"i", "n", "x"} -> j.t \in {"number_integer", "number_unsigned"}
    [] code \in {"y", "q", "u", "t"} -> j.t = "number_unsigned"
    [] code = "d" -> j.t \in {"number_float", "number_integer", "number_unsigned"}
    [] code = "b" -> j.t \in {"boolean", "string", "number_integer", "number_unsigned"}
    [] OTHER -> FALSE

\* codes is a run of basic type codes and items holds one valid value for each
ValidItems(codes, items) ==
  /\ Len(items) = Len(codes)
  /\ \A k \in 1..Len(codes) : codes[k] \in BasicCodes /\ ValidFor(codes[k], items[k])

\* the appends that encode items[k] against codes[k], for every k in order
BasicOps(codes, items) == [k \in 1..Len(codes) |-> BasicOp(codes[k], items[k].v)]

\* C17: a call whose signature is N > 1 basic top-level types and whose JSON
\* value is an array of exactly N elements, each valid for its type, succeeds
\* and has appended element k as type k, for every k in 1..N in order.
C17_MultiTypeEncodes ==
  (/\ Encoded
   /\ Len(encoding.arg_type) > 1
   /\ encoding.input_json.t = "array"
   /\ ValidItems(encoding.arg_type, encoding.input_json.v))
    => /\ ~encoding.out.crash
       /\ encoding.out.r >= 0
       /\ encoding.out.m = BasicOps(encoding.arg_type, encoding.input_json.v)

\* the array of n copies of the type code
Repeat(code, n) == [k \in 1..n |-> code]

\* C18: a call whose signature is a<T>, T a basic type, and whose JSON value is
\* an array of any length of values valid for T succeeds, having opened one
\* array container of T, appended every element once in order, and closed it.
C18_ArrayEncodesAll ==
  (/\ Encoded
   /\ Len(encoding.arg_type) = 2
   /\ encoding.arg_type[1] = "a"
   /\ encoding.input_json.t = "array"
   /\ ValidItems(Repeat(encoding.arg_type[2], Len(encoding.input_json.v)),
                 encoding.input_json.v))
    => /\ ~encoding.out.crash
       /\ encoding.out.r >= 0
       /\ encoding.out.m
            = <<OpenOp("a", <<encoding.arg_type[2]>>)>>
                \o BasicOps(Repeat(encoding.arg_type[2], Len(encoding.input_json.v)),
                            encoding.input_json.v)
                \o <<CloseOp>>

\* the type codes between the brackets of a struct or dict-entry code
Members(arg_type) == SubSeq(arg_type, 2, Len(arg_type) - 1)

\* C19: a call whose signature is the struct (T1 ... TN) of basic types and
\* whose JSON value is an array of N values, the i-th valid for Ti, succeeds,
\* having opened one struct container of contents T1...TN, appended the i-th
\* element as Ti for every i, and closed the container.
C19_StructEncodesAll ==
  (/\ Encoded
   /\ starts_with(encoding.arg_type, "(") /\ ends_with(encoding.arg_type, ")")
   /\ encoding.input_json.t = "array"
   /\ ValidItems(Members(encoding.arg_type), encoding.input_json.v))
    => /\ ~encoding.out.crash
       /\ encoding.out.r >= 0
       /\ encoding.out.m
            = <<OpenOp("r", Members(encoding.arg_type))>>
                \o BasicOps(Members(encoding.arg_type), encoding.input_json.v)
                \o <<CloseOp>>

\* the appends that encode, for every key of the object in order, the key as
\* key_type and then its value as value_type
EntryOps(key_type, value_type, j) ==
  LET keys == json_keys(j)
  IN [n \in 1..(2 * Len(keys)) |->
        IF n % 2 = 1 THEN BasicOp(key_type, keys[(n + 1) \div 2])
        ELSE BasicOp(value_type, j.v[keys[n \div 2]].v)]

\* C20: a call whose signature is the dict entry {K V} of two basic types, K
\* accepting strings, and whose JSON value is an object of values valid for V
\* succeeds, and the basic values it appended are, for each key of the object,
\* the key as K followed by its value as V.
C20_DictEncodes ==
  (/\ Encoded
   /\ Len(encoding.arg_type) = 4
   /\ starts_with(encoding.arg_type, "{") /\ ends_with(encoding.arg_type, "}")
   /\ encoding.arg_type[2] = "s"
   /\ encoding.arg_type[3] \in BasicCodes
   /\ encoding.input_json.t = "object"
   /\ \A key \in DOMAIN encoding.input_json.v :
        ValidFor(encoding.arg_type[3], encoding.input_json.v[key]))
    => /\ ~encoding.out.crash
       /\ encoding.out.r >= 0
       /\ SelectSeq(encoding.out.m, LAMBDA o : o.op = "append_basic")
            = EntryOps("s", encoding.arg_type[3], encoding.input_json)

\* the truth value the spec gives a JSON scalar encoded as a bus boolean
TruthOf(j) ==
  CASE j.t = "boolean" -> j.v
    [] j.t \in {"number_integer", "number_unsigned"} -> j.v > 0
    [] j.t = "string" -> istarts_with_t(j.v)

\* the call has returned to its caller
Returned == Encoded /\ ~encoding.out.crash

\* C21: a call with the code b on a JSON boolean, integer or string that
\* returns has appended exactly one bus boolean, which is 1 when the value is
\* true, an integer greater than 0 or a string beginning with t or T, and 0
\* otherwise.
C21_BoolTruthPreserved ==
  (/\ Returned
   /\ encoding.arg_type = <<"b">>
   /\ ValidFor("b", encoding.input_json))
    => encoding.out.m = <<BasicOp("b", IF TruthOf(encoding.input_json) THEN 1 ELSE 0)>>

\* the integer is a value of the type the code names; every integer of the
\* model is below 2^31, hence a value of i and, when not negative, of u
Representable(code, v) ==
  CASE code = "y" -> 0 <= v /\ v < 2^8
    [] code = "q" -> 0 <= v /\ v < 2^16
    [] code = "u" -> 0 <= v
    [] code = "n" -> -(2^15) <= v /\ v < 2^15
    [] code = "i" -> TRUE

\* C22: a call with one of the codes y, q, u, n, i on a JSON integer that is
\* not a value of that type returns an error and has appended nothing; the
\* value a returning call has appended is the JSON integer itself.
C22_NoNarrowing ==
  (/\ Returned
   /\ Len(encoding.arg_type) = 1
   /\ encoding.arg_type[1] \in {"y", "q", "u", "n", "i"}
   /\ encoding.input_json.t \in {"number_integer", "number_unsigned"})
    => /\ ~Representable(encoding.arg_type[1], encoding.input_json.v)
            => encoding.out.r < 0 /\ encoding.out.m = <<>>
       /\ \A k \in 1..Len(encoding.out.m) :
            encoding.out.m[k].value = encoding.input_json.v

\* C23: a call with one of the codes s, o, g on a JSON string that returns has
\* appended exactly that string as a bus value of that type.
C23_StringsVerbatim ==
  (/\ Returned
   /\ Len(encoding.arg_type) = 1
   /\ encoding.arg_type[1] \in {"s", "o", "g"}
   /\ encoding.input_json.t = "string")
    => encoding.out.m = <<BasicOp(encoding.arg_type[1], encoding.input_json.v)>>

\* C24: a call with a basic code on a JSON value whose shape the code does not
\* accept returns an error and has appended nothing.
C24_ShapeMismatchFails ==
  (/\ Returned
   /\ Len(encoding.arg_type) = 1
   /\ encoding.arg_type[1] \in BasicCodes
   /\ ~ValidFor(encoding.arg_type[1], encoding.input_json))
    => /\ encoding.out.r < 0
       /\ encoding.out.m = <<>>

(***************************************************************************)
(* Properties of dbus_arg_split, over the calls of SpecCodec.              *)
(***************************************************************************)
\* the call of dbus_arg_split has returned a vector
SplitReturned == encoding.phase = "split" /\ ~encoding.out.crash

\* the elements of a vector of strings, concatenated in order
Concat(ret) == FoldSeq(LAMBDA acc, x : acc \o x, <<>>, ret)

\* C25: the elements dbus_arg_split returns for a string, concatenated in
\* order, are that string, for every string over the signature alphabet,
\* well-formed or not; for the empty string it returns the empty vector.
C25_SplitConcat ==
  /\ SplitReturned => Concat(encoding.out.ret) = encoding.arg_type
  /\ (encoding.phase = "split" /\ encoding.arg_type = <<>>)
       => ~encoding.out.crash /\ encoding.out.ret = <<>>

\* C25 witness: "aia{sv}" was split into two elements.
C25_Witness ==
  /\ SplitReturned
  /\ encoding.arg_type = <<"a", "i", "a", "{", "s", "v", "}">>
  /\ Len(encoding.out.ret) = 2

RECURSIVE Balanced(_, _, _)
\* from position i on, at bracket depth d: every close bracket has an opener
\* and every opener is closed
Balanced(sig, i, d) ==
  IF i > Len(sig) THEN d = 0
  ELSE IF sig[i] \in {"(", "{"} THEN Balanced(sig, i + 1, d + 1)
  ELSE IF sig[i] \in {")", "}"} THEN d > 0 /\ Balanced(sig, i + 1, d - 1)
  ELSE Balanced(sig, i + 1, d)

\* the string has unbalanced brackets or ends in an a without element type
Malformed(sig) == ~Balanced(sig, 1, 0) \/ (sig # <<>> /\ sig[Len(sig)] = "a")

\* C26: dbus_arg_split returns a vector for no string with unbalanced brackets
\* and for no string that ends in an a without element type.
C26_SplitRejectsMalformed ==
  SplitReturned => ~Malformed(encoding.arg_type)

\* C27: for a well-formed signature, every element dbus_arg_split returns is
\* exactly one complete type: a basic code, a bracketed group up to its
\* matching close bracket, or an a followed by exactly one complete type.
C27_SplitElementsComplete ==
  (SplitReturned /\ signature_is_valid_from(encoding.arg_type, 1))
    => \A k \in 1..Len(encoding.out.ret) : signature_is_single(encoding.out.ret[k])

\* C27 witness: "aia{sv}" was split into "ai" and "a{sv}".
C27_Witness ==
  /\ SplitReturned
  /\ encoding.arg_type = <<"a", "i", "a", "{", "s", "v", "}">>
  /\ encoding.out.ret = << <<"a", "i">>, <<"a", "{", "s", "v", "}">> >>

(***************************************************************************)
(* Properties of the requests, continued.                                  *)
(***************************************************************************)
\* the positions in the request's path of the separator "/" word "/"
Separators(word) ==
  {k \in 2..(Len(request.path) - 1) : request.path[k] = word}

\* the request was split into object path and name at position k of its path
SplitAt(k) ==
  /\ request.object_path = Join(<<"xyz">> \o SubSeq(request.path, 1, k - 1))
  /\ request.property = Rest(SubSeq(request.path, k + 1, Len(request.path)))

\* C28: a request under /xyz/ whose path holds its separator more than once
\* (/attr/ for GET and PUT, /action/ for POST) is split into object path and
\* property or method name at the last occurrence.
C28_LastSeparatorWins ==
  (request # NoRequest /\ request.route = "/xyz/<path>")
    => /\ (request.method \in {"GET", "PUT"} /\ Cardinality(Separators("attr")) > 1)
            => SplitAt(Max(Separators("attr")))
       /\ (request.method = "POST" /\ Cardinality(Separators("action")) > 1)
            => SplitAt(Max(Separators("action")))

\* the method call declares only basic types for its "in" arguments, as many
\* as the body has elements, and every element is valid for its type
BasicArguments(call) ==
  /\ Len(call.in_types) = Len(transaction.arguments.v)
  /\ \A k \in 1..Len(call.in_types) :
       /\ Len(call.in_types[k]) = 1
       /\ call.in_types[k][1] \in BasicCodes
       /\ ValidFor(call.in_types[k][1], transaction.arguments.v[k])

CallsTo(connection) ==
  SelectSeq(issued, LAMBDA c : c.kind = "MethodCall" /\ c.connection = connection)

EnumerateData(returned) ==
  JObj([path \in DOMAIN returned |->
          JObj([name \in DOMAIN returned[path] |->
                  bool_as_int(variant_to_json(returned[path][name]))])])

\* C31: an enumerate whose GetSubTree reply names at least one connection
\* emits nothing while a GetManagedObjects call is outstanding; once all have
\* returned it has emitted exactly one response, with status 200 and the
\* success envelope, whose data holds the objects of the connections that
\* replied successfully, whatever number of the calls failed with a bus error
\* (data is {} if all of them failed).
C31_EnumerateSkipsErrors ==
  (Handler("enumerate") /\ MapperAnswered /\ ~crashed
     /\ subtree_connections(mapperReply.object_names) # <<>>)
    => /\ calls # <<>> => emitted = <<>>
       /\ calls = <<>>
            => /\ Len(emitted) = 1
               /\ emitted[1].result = ok
               /\ replies # <<>>
               /\ emitted[1].json_value
                    = JObj([message |-> JStr("200 OK"), status |-> JStr("ok"),
                            data |-> EnumerateData(replies[1].returned)])
               /\ replies[1].errors = Len(subtree_connections(mapperReply.object_names))
                    => emitted[1].json_value.v.data = EmptyObject

\* C31 witness: two connections were asked, one call failed with a bus error,
\* and the response carries the object of the other.
C31_Witness ==
  /\ Handler("enumerate") /\ Done /\ MapperAnswered
  /\ Len(subtree_connections(mapperReply.object_names)) = 2
  /\ replies # <<>>
  /\ replies[1].errors = 1
  /\ Len(emitted) = 1
  /\ emitted[1].result = ok
  /\ "/xyz/a/o1" \in DOMAIN emitted[1].json_value.v.data.v

\* the build neither dies in dbus_arg_split nor on a read or a missing return
\* of convert_json_to_dbus: the call can then only fail to return by recursing
\* until the stack is exhausted
NoCrashBuild == encoding.ub.split = "ret" /\ encoding.ub.conv # "crash"

\* C32: convert_json_to_dbus returns a result after finitely many recursive
\* calls, for every signature and every JSON value, struct codes included.
C32_EncodeTerminates ==
  (Encoded /\ NoCrashBuild) => ~encoding.out.crash

\* the status member of the response body as it stands
BodyStatus(r) ==
  IF r.json_value.t = "object" /\ "status" \in DOMAIN r.json_value.v
  THEN r.json_value.v["status"]
  ELSE JNull

\* C33: in a PUT, from the moment a Set reply is a bus error the body carries
\* status "error", whatever replies arrive afterwards and in whatever order:
\* a later successful Set reply does not restore "ok", and the one response
\* emitted when the last callback has run carries status "error".
C33_SetErrorSticks ==
  (Handler("put") /\ SetErrors # {})
    => /\ BodyStatus(res) = JStr("error")
       /\ Done => /\ Len(emitted) = 1
                  /\ BodyStatus(emitted[1]) = JStr("error")

\* C33 witness: two connections were each sent a Set; the first reply was a bus
\* error, the success arrived after it, and the finalized body says "error".
C33_Witness ==
  /\ Handler("put") /\ Done
  /\ Len(replies) = 2
  /\ replies[1].kind = "Set" /\ replies[1].ec # NoError
  /\ replies[2].kind = "Set" /\ replies[2].ec = NoError
  /\ Cardinality({issued[n].connection :
                    n \in {k \in 1..Len(issued) : issued[k].kind = "Set"}}) = 2
  /\ Len(emitted) = 1
  /\ BodyStatus(emitted[1]) = JStr("error")

\* C34: a POST to /xyz/<path> whose path has no /action/ separator is answered
\* with 405 Method Not Allowed: exactly one response is emitted, and no bus
\* call is issued for the request.
C34_PostWithoutActionIs405 ==
  (request # NoRequest /\ request.route = "/xyz/<path>" /\ request.method = "POST"
     /\ Separators("action") = {})
    => /\ Len(emitted) = 1
       /\ emitted[1].result = method_not_allowed
       /\ issued = <<>>
       /\ calls = <<>>

\* C34 witness: POST /xyz/a/attr/Powered was answered with 405.
C34_Witness ==
  /\ request # NoRequest /\ request.route = "/xyz/<path>" /\ request.method = "POST"
  /\ request.path = <<"a", "attr", "Powered">>
  /\ Len(emitted) = 1
  /\ emitted[1].result = method_not_allowed

====
